---- MODULE Spec2Model ----
(***************************************************************************)
(* A model of the grammar store (Symbol, addRule) and of the ambiguity     *)
(* detector of the grammar compiler.                                       *)
(*                                                                         *)
(* Strings are sequences of tokens, so that concatenation ('[' + join +    *)
(* ']', terminals += ' ' + RHS[0]) is sequence concatenation and two       *)
(* different inputs can produce the same string.                           *)
(* Costs are counted in units of 1e-7.                                     *)
(* An optional field is <<>> when undefined and <<v>> when it holds v.     *)
(***************************************************************************)
EXTENDS Integers, Sequences, FiniteSets, TLC

VARIABLES
  grammarKeys,  \* the own keys of `grammar`, in insertion order
  symRules,     \* the rule array (this.rules) of every constructed Symbol
  lastCall,     \* the last call of the authoring API and how it ended
  detOpts,      \* the options (opts) the detector was called with
  status,       \* "authoring", or where the detector is
  symIdx,       \* position in grammarKeys of the next symbol to search
  warnings,     \* the ambiguity warnings printed so far, in order
  errors,       \* the symbols named by the test-rule errors printed so far
  tab,          \* pathTab of the running searchPaths call
  rootIdx,      \* the index p of its second loop (from 1; 0 outside the loop)
  stack,        \* the running buildPaths calls, the innermost last
  verbOptions,  \* the options object newVerbSet is called with
  verbRules,    \* the rules of the symbol newVerbSet creates, in order
  verbCall,     \* how far that call went, and the answers about its symbol
  forest        \* the parse forest the cost pass works on

vars == <<grammarKeys, symRules, lastCall, detOpts, status, symIdx, warnings,
          errors, tab, rootIdx, stack,
         verbOptions, verbRules, verbCall, forest>>

\* ------------------------------------------------------------------ bounds
\* Largest number of addRule calls that are accepted on one grammar.
MaxRules == 2

\* ----------------------------------------------------------------- strings
\* The value of a name chunk that is `undefined`.
UndefinedChunk == <<"#undefined">>

\* Array.prototype.join('-') over the chunks of a symbol name.
RECURSIVE JoinChunks(_)
JoinChunks(chunks) ==
  IF chunks = <<>> THEN <<>>
  ELSE IF Len(chunks) = 1 THEN chunks[1]
  ELSE chunks[1] \o <<"-">> \o JoinChunks(Tail(chunks))

\* this.name = '[' + symNameChunks.join('-') + ']'
SymbolName(chunks) == <<"[">> \o JoinChunks(chunks) \o <<"]">>

\* String.prototype.indexOf(sub) on str: the first index, from 0, at which
\* sub occurs in str, and -1 when it does not occur.
IndexOf(str, sub) ==
  LET at == { i \in 0..(Len(str) - Len(sub)) :
                SubSeq(str, i + 1, i + Len(sub)) = sub }
  IN IF at = {} THEN -1 ELSE CHOOSE i \in at : \A j \in at : i <= j

\* ------------------------------------------------------------ the store
HasKeyLastOnly(keys, name) == keys # <<>> /\ keys[Len(keys)] = name

\* grammar.hasOwnProperty(name)
HasKey(keys, name) == \E i \in 1..Len(keys) : keys[i] = name

\* The own keys of `grammar`, in insertion order, after the assignment
\* grammar[this.name] = [].
RegisterKey(keys, name) ==
  IF \E i \in 1..Len(keys) : keys[i] = name THEN keys ELSE Append(keys, name)

\* The constructor Symbol(grammar, chunks...): the error it throws ("" when
\* it returns), the keys of the grammar and the rule arrays afterwards.
SymbolCtor(keys, rulesOf, chunks) ==
  IF \E i \in 1..Len(chunks) : chunks[i] = UndefinedChunk
  THEN [err |-> "ill-formed Symbol", keys |-> keys, rulesOf |-> rulesOf]
  ELSE LET name == SymbolName(chunks) IN
       IF HasKey(keys, name)
       THEN [err |-> "duplicate Symbol", keys |-> keys, rulesOf |-> rulesOf]
       ELSE [err |-> "", keys |-> RegisterKey(keys, name),
             rulesOf |-> [n \in (DOMAIN rulesOf) \cup {name} |->
                            IF n = name THEN <<>> ELSE rulesOf[n]]]

\* ------------------------------------------------------------- rules
\* Cost of rules for each sym are incremented by 1e-7 (one unit here).
CostStep == 1

\* The Semantic objects of the grammar: intersect has cost 0, the other one
\* carries a cost penalty.
Semantics == { [function |-> "intersect", cost |-> 0],
               [function |-> "penalty", cost |-> 5] }

\* A rule as addRule stores it; insertionIdx and transposition are the
\* fields that only generated (edit) rules carry.
Rule(RHS, terminal, cost, semantic, transpositionCost) ==
  [RHS |-> RHS, terminal |-> terminal, cost |-> cost, semantic |-> semantic,
   transpositionCost |-> transpositionCost,
   insertionIdx |-> <<>>, transposition |-> FALSE]

\* util.arraysMatch(a, b)
arraysMatch(a, b) ==
  /\ Len(a) = Len(b)
  /\ \A i \in 1..Len(a) : a[i] = b[i]

\* util.illFormedOpts(termRuleOptsSchema, opts): RHS must be a String.
IllFormedTermOpts(opts) == opts.RHS.kind # "String"

\* util.illFormedOpts(nontermRuleOptsSchema, opts): RHS must be an Array
\* whose elements are all instances of Symbol.
IllFormedNontermOpts(opts) ==
  \/ opts.RHS.kind # "Array"
  \/ \E i \in 1..Len(opts.RHS.elems) : ~opts.RHS.elems[i].isSymbol

calcCostAfterPush(rulesLen, costPenalty) ==
  (rulesLen + 1) * CostStep + costPenalty

\* Symbol.prototype.calcCost(costPenalty), rulesLen being this.rules.length
calcCost(rulesLen, costPenalty) == rulesLen * CostStep + costPenalty

ruleExistsByIdentity(rules, newRule) ==
  \E i \in 1..Len(rules) : rules[i] = newRule

\* Symbol.prototype.ruleExists(newRule)
ruleExists(rules, newRule) ==
  \E i \in 1..Len(rules) : arraysMatch(rules[i].RHS, newRule.RHS)

NoRule == Rule(<<>>, FALSE, 0, <<>>, <<>>)

\* Symbol.prototype.newTermRule(opts)
newTermRule(rules, opts) ==
  IF IllFormedTermOpts(opts)
  THEN [thrown |-> "ill-formed terminal rule", msg |-> "", rule |-> NoRule]
  ELSE [thrown |-> "", msg |-> "",
        rule |-> Rule(<<opts.RHS.str>>, TRUE, calcCost(Len(rules), 0),
                      <<>>, <<>>)]

RHSNamesUnbracketed(elems) ==
  [i \in 1..Len(elems) |-> SubSeq(elems[i].name, 2, Len(elems[i].name) - 1)]

\* RHS: opts.RHS.map(function (RHSSymbol) { return RHSSymbol.name })
RHSNames(elems) == [i \in 1..Len(elems) |-> elems[i].name]

\* The length check of newNontermRule: opts.RHS.length > 2
RHSTooLong(elems) == Len(elems) > 2

NotBinaryOnlyLonger(elems) == Len(elems) > 2

\* The transposition check of newNontermRule: opts.RHS.length !== 2
NotBinary(elems) == Len(elems) # 2

\* Symbol.prototype.newNontermRule(opts)
newNontermRule(rules, opts) ==
  IF IllFormedNontermOpts(opts)
  THEN [thrown |-> "ill-formed nonterminal rule", msg |-> "", rule |-> NoRule]
  ELSE IF RHSTooLong(opts.RHS.elems)
  THEN [thrown |-> "ill-formed rule",
        msg |-> "rules can only have 1 or 2 RHS symbols", rule |-> NoRule]
  ELSE LET cost == IF opts.semantic # <<>>
                   THEN calcCost(Len(rules), opts.semantic[1].cost)
                   ELSE calcCost(Len(rules), 0)
           sem == IF opts.semantic # <<>>
                  THEN <<opts.semantic[1].function>> ELSE <<>>
       IN IF opts.transpositionCost # <<>> /\ NotBinary(opts.RHS.elems)
          THEN [thrown |-> "ill-formed rule",
                msg |-> "nonterminal rules with transposition-costs must have 2 RHS symbols",
                rule |-> NoRule]
          ELSE [thrown |-> "", msg |-> "",
                rule |-> Rule(RHSNames(opts.RHS.elems), FALSE, cost, sem,
                              opts.transpositionCost)]

\* Symbol.prototype.addRule(opts) on the symbol whose rule array is `rules`:
\* what it throws ("" when it returns), what it logs, and the array after.
addRule(rules, opts) ==
  IF ~opts.hasRHS
  THEN [thrown |-> "ill-formed rule", msg |-> "rule missing RHS",
        rules |-> rules]
  ELSE LET r == IF opts.terminal THEN newTermRule(rules, opts)
                ELSE newNontermRule(rules, opts)
       IN IF r.thrown # ""
          THEN [thrown |-> r.thrown, msg |-> r.msg, rules |-> rules]
          ELSE IF ruleExists(rules, r.rule)
          THEN [thrown |-> "ill-formed rule", msg |-> "duplicate rule",
                rules |-> rules]
          ELSE [thrown |-> "", msg |-> "", rules |-> Append(rules, r.rule)]

\* ------------------------------------------------------------- inputs
\* Argument lists of the constructor: ('a'), ('a-b'), ('a', 'b') and
\* ('a', undefined).
ChunkLists == { <<c>> : c \in {<<"a">>, <<"a", "-", "b">>} }
              \cup { <<<<"a">>, <<"b">>>>, <<<<"a">>, UndefinedChunk>> }

\* Terminal strings.
TermStrings == { <<"x">>, <<"y">> }

SymbolObj(name) == [isSymbol |-> TRUE, name |-> name]
NotASymbol == [isSymbol |-> FALSE, name |-> <<"x">>]

\* The options of a nonterminal rule.
NontermOpts(elems, semantic, transpositionCost) ==
  [hasRHS |-> TRUE, terminal |-> FALSE,
   RHS |-> [kind |-> "Array", elems |-> elems],
   semantic |-> semantic, transpositionCost |-> transpositionCost]

ThePenalty == CHOOSE s \in Semantics : s.cost > 0

\* The options passed to addRule, over the Symbol objects constructed so
\* far: no RHS at all, terminal rules, a terminal rule whose RHS is not a
\* String, and nonterminal rules of 0 to 3 symbols, with and without a
\* semantic and a transposition cost, and one whose RHS holds a value that
\* is not a Symbol.
RuleOpts(names) ==
  { [hasRHS |-> FALSE, terminal |-> FALSE, RHS |-> [kind |-> "Array", elems |-> <<>>],
     semantic |-> <<>>, transpositionCost |-> <<>>] }
  \cup { [hasRHS |-> TRUE, terminal |-> TRUE, RHS |-> [kind |-> "String", str |-> t],
          semantic |-> <<>>, transpositionCost |-> <<>>] : t \in TermStrings }
  \cup { [hasRHS |-> TRUE, terminal |-> TRUE, RHS |-> [kind |-> "Array", elems |-> <<>>],
          semantic |-> <<>>, transpositionCost |-> <<>>] }
  \cup { NontermOpts(<<>>, <<>>, t) : t \in {<<>>, <<1>>} }
  \cup { NontermOpts(<<SymbolObj(n)>>, s, <<>>) :
           n \in names, s \in {<<>>, <<ThePenalty>>} }
  \cup { NontermOpts(<<SymbolObj(n)>>, <<>>, <<1>>) : n \in names }
  \cup { NontermOpts(<<SymbolObj(n), SymbolObj(n)>>, <<>>, t) :
           n \in names, t \in {<<>>, <<1>>} }
  \cup { NontermOpts(<<SymbolObj(n), SymbolObj(n), SymbolObj(n)>>, <<>>, <<>>) :
           n \in names }
  \cup { NontermOpts(<<NotASymbol>>, <<>>, <<>>) }

\* ------------------------------------------------------------ authoring
TotalRules(rulesOf) ==
  LET RECURSIVE Sum(_)
      Sum(S) == IF S = {} THEN 0
                ELSE LET n == CHOOSE n \in S : TRUE
                     IN Len(rulesOf[n]) + Sum(S \ {n})
  IN Sum(DOMAIN rulesOf)

NoCall == [op |-> "none", thrown |-> "", msg |-> "", sym |-> <<>>]

NoOpts == [symsLimit |-> 0, findAll |-> FALSE, useTestRules |-> FALSE,
           noOutput |-> FALSE]

detectorVars ==
  <<detOpts, status, symIdx, warnings, errors, tab, rootIdx, stack>>

authorVars == <<grammarKeys, symRules, lastCall>>

\* The variables of the terminal rule sets and of the cost pass, which the
\* authoring of rules and the detector leave alone.
toolVars == <<verbOptions, verbRules, verbCall, forest>>

NoVerbOptions == [symbolName |-> "", hasInsertionCost |-> FALSE,
                  insertionCost |-> 0, acceptedVerbTermSets |-> <<>>,
                  substitutedVerbTermSets |-> <<>>]

NoVerbCall == [state |-> "none", thrown |-> "", isVerb |-> <<>>,
               isPresentVerb |-> <<>>]

NoForest == [nodes |-> <<>>, given |-> <<>>, subs |-> <<>>, threw |-> FALSE,
             state |-> "none"]

InitTools ==
  /\ verbOptions = NoVerbOptions
  /\ verbRules = <<>>
  /\ verbCall = NoVerbCall
  /\ forest = NoForest

Init ==
  /\ grammarKeys = <<>>
  /\ symRules = [n \in {} |-> <<>>]
  /\ lastCall = NoCall
  /\ detOpts = NoOpts
  /\ status = "authoring"
  /\ symIdx = 0
  /\ warnings = <<>>
  /\ errors = <<>>
  /\ tab = <<>>
  /\ rootIdx = 0
  /\ stack = <<>>
  /\ InitTools

\* new Symbol(grammar, chunks...)
NewSymbol(chunks) ==
  LET r == SymbolCtor(grammarKeys, symRules, chunks) IN
  /\ grammarKeys' = r.keys
  /\ symRules' = r.rulesOf
  /\ lastCall' = [op |-> "Symbol", thrown |-> r.err, msg |-> "",
                  sym |-> IF r.err = "ill-formed Symbol" THEN <<>>
                          ELSE SymbolName(chunks)]
  /\ UNCHANGED toolVars
  /\ UNCHANGED detectorVars

\* sym.addRule(opts) on a constructed symbol
AddRule(name, opts) ==
  LET r == addRule(symRules[name], opts) IN
  /\ r.thrown = "" => TotalRules(symRules) < MaxRules
  /\ symRules' = [symRules EXCEPT ![name] = r.rules]
  /\ lastCall' = [op |-> "addRule", thrown |-> r.thrown, msg |-> r.msg,
                  sym |-> name]
  /\ UNCHANGED toolVars
  /\ UNCHANGED <<grammarKeys, detectorVars>>

Next ==
  \/ \E chunks \in ChunkLists : NewSymbol(chunks)
  \/ \E name \in DOMAIN symRules :
       \E opts \in RuleOpts(DOMAIN symRules) : AddRule(name, opts)

Spec == Init /\ [][Next]_vars

\* ------------------------------------------------- the store: properties
Names == DOMAIN symRules

KeySet == { grammarKeys[i] : i \in 1..Len(grammarKeys) }

SemanticCost(rule) ==
  IF rule.semantic = <<>> THEN 0
  ELSE (CHOOSE s \in Semantics : s.function = rule.semantic[1]).cost

NoDuplicateRHS ==
  \A n \in Names : \A i, j \in 1..Len(symRules[n]) :
    i # j => symRules[n][i].RHS # symRules[n][j].RHS

\* C4: no symbol's rule list ever holds two rules with the same RHS, and an
\* addRule that fails with the duplicate-rule error leaves every rule list
\* exactly as it was.
C4_NoDuplicateRules ==
  [][ /\ NoDuplicateRHS'
      /\ (lastCall'.op = "addRule" /\ lastCall'.msg = "duplicate rule")
           => (lastCall'.thrown # "" /\ symRules' = symRules) ]_vars

\* C4 witness: addRule has just failed with the duplicate-rule error on a
\* symbol that holds a rule.
C4_Witness ==
  /\ lastCall.op = "addRule"
  /\ lastCall.msg = "duplicate rule"
  /\ symRules[lastCall.sym] # <<>>

UniqueKeys ==
  \A i, j \in 1..Len(grammarKeys) : i # j => grammarKeys[i] # grammarKeys[j]

\* C5: constructing a symbol whose joined, bracketed name is already a key
\* of the grammar throws the duplicate-symbol error and changes neither the
\* keys nor any rule list; the keys of the grammar stay pairwise different.
C5_DuplicateSymbolChangesNothing ==
  [][ /\ UniqueKeys'
      /\ (lastCall'.op = "Symbol" /\ lastCall'.sym \in KeySet)
           => /\ lastCall'.thrown = "duplicate Symbol"
              /\ grammarKeys' = grammarKeys
              /\ symRules' = symRules ]_vars

\* C5 witness: the constructor has just failed on the name of a symbol that
\* holds a rule, the name having been joined from two chunks.
C5_Witness ==
  /\ lastCall.op = "Symbol"
  /\ lastCall.thrown = "duplicate Symbol"
  /\ lastCall.sym = SymbolName(<<<<"a">>, <<"b">>>>)
  /\ symRules[lastCall.sym] # <<>>

\* C6: every nonterminal rule in the store has an RHS of exactly 1 or 2
\* symbols.
C6_NontermRhsOneOrTwo ==
  \A n \in Names : \A i \in 1..Len(symRules[n]) :
    ~symRules[n][i].terminal => Len(symRules[n][i].RHS) \in {1, 2}

CostIsIndexPlusSemantic ==
  \A n \in Names : \A i \in 1..Len(symRules[n]) :
    symRules[n][i].cost = (i - 1) * CostStep + SemanticCost(symRules[n][i])

EqualSemanticCostDistinctCost ==
  \A n \in Names : \A i, j \in 1..Len(symRules[n]) :
    (i # j /\ SemanticCost(symRules[n][i]) = SemanticCost(symRules[n][j]))
      => symRules[n][i].cost # symRules[n][j].cost

\* C7: the cost of the k-th rule of a symbol (k from 0) is k units of 1e-7
\* plus the cost of its semantic, a rejected addRule changes no rule list
\* (so it consumes no index), an accepted one stores the cost computed from
\* the number of rules the symbol had, and two rules of one symbol with
\* equal semantic cost have different costs.
C7_CostIsIndexPlusSemantic ==
  [][ /\ CostIsIndexPlusSemantic'
      /\ EqualSemanticCostDistinctCost'
      /\ (lastCall'.op = "addRule" /\ lastCall'.thrown # "")
           => symRules' = symRules
      /\ (lastCall'.op = "addRule" /\ lastCall'.thrown = "")
           => LET n == lastCall'.sym
                  new == symRules'[n][Len(symRules'[n])]
              IN /\ Len(symRules'[n]) = Len(symRules[n]) + 1
                 /\ new.cost = Len(symRules[n]) * CostStep + SemanticCost(new)
    ]_vars

\* C7 witness: a symbol holds two rules, the second one with a semantic of
\* positive cost, and the last addRule was rejected.
C7_Witness ==
  /\ lastCall.op = "addRule"
  /\ lastCall.thrown # ""
  /\ Len(symRules[lastCall.sym]) = 2
  /\ SemanticCost(symRules[lastCall.sym][2]) > 0

\* C8: every symbol name on the RHS of a nonterminal rule is a key of the
\* grammar.
C8_RhsSymbolsAreKeys ==
  \A n \in Names : \A i \in 1..Len(symRules[n]) :
    ~symRules[n][i].terminal =>
      \A k \in 1..Len(symRules[n][i].RHS) : symRules[n][i].RHS[k] \in KeySet

\* C8 witness: a symbol holds a binary rule and a unary rule that names the
\* other symbol.
C8_Witness ==
  \E n \in Names : \E i, j \in 1..Len(symRules[n]) :
    /\ ~symRules[n][i].terminal /\ Len(symRules[n][i].RHS) = 2
    /\ ~symRules[n][j].terminal /\ Len(symRules[n][j].RHS) = 1
    /\ symRules[n][j].RHS[1] # n

TranspositionCostOnlyOnBinary ==
  \A n \in Names : \A i \in 1..Len(symRules[n]) :
    symRules[n][i].transpositionCost # <<>> => Len(symRules[n][i].RHS) = 2

\* C9: every rule that carries transpositionCost has exactly 2 RHS symbols,
\* and an addRule rejected for a transposition cost on a non-binary RHS adds
\* no rule.
C9_TranspositionCostImpliesBinary ==
  [][ /\ TranspositionCostOnlyOnBinary'
      /\ (lastCall'.op = "addRule" /\ lastCall'.msg =
            "nonterminal rules with transposition-costs must have 2 RHS symbols")
           => (lastCall'.thrown # "" /\ symRules' = symRules) ]_vars

\* C9 witness: a rule with a transposition cost is in the store and the last
\* addRule was rejected for a transposition cost on a non-binary RHS.
C9_Witness ==
  /\ lastCall.op = "addRule"
  /\ lastCall.msg =
       "nonterminal rules with transposition-costs must have 2 RHS symbols"
  /\ \E n \in Names : \E i \in 1..Len(symRules[n]) :
       symRules[n][i].transpositionCost # <<>>

\* =================================================== the ambiguity detector
\* A grammar is [keys |-> own keys in insertion order, rules |-> rule arrays].

\* Largest symsLimit the detector is called with.
MaxSymsLimit == 5

\* Largest number of generated (edit) rules in a grammar.
MaxEditRules == 2

\* `undefined` as the value of nextSym.
NoSym == <<>>

IsEditOnlyTransposition(rule) == rule.transposition

\* The negation of the test that guards both loops over rules:
\* rule.insertionIdx === undefined && !rule.transposition
IsEdit(rule) == rule.insertionIdx # <<>> \/ rule.transposition

\* RHS[0] of a nonterminal rule (undefined when the RHS is empty).
FirstSym(RHS) == IF Len(RHS) >= 1 THEN RHS[1] ELSE NoSym

\* The path searchPaths creates for root rule number r; `root` records r and
\* `rules` is the chain of RHS arrays that listToArray reads off RHS/prev.
RootPath(rule, r) ==
  LET RHS == rule.RHS IN
  [nextSym |-> IF rule.terminal THEN NoSym ELSE FirstSym(RHS),
   nextSyms |-> IF ~rule.terminal /\ Len(RHS) = 2 THEN <<RHS[2]>> ELSE <<>>,
   terminals |-> IF rule.terminal THEN <<" ">> \o RHS[1] ELSE <<>>,
   symsCount |-> 1 + Len(RHS),
   rules |-> <<RHS>>,
   root |-> r]

\* The path buildPaths creates from lastPath with one rule of lastPath.nextSym.
NextPath(lastPath, rule) ==
  LET RHS == rule.RHS
      lastNextSyms == lastPath.nextSyms
  IN
  [nextSym |-> IF rule.terminal
               THEN (IF lastNextSyms # <<>> THEN Head(lastNextSyms) ELSE NoSym)
               ELSE FirstSym(RHS),
   nextSyms |-> IF rule.terminal
                THEN (IF lastNextSyms # <<>> THEN Tail(lastNextSyms) ELSE <<>>)
                ELSE (IF Len(RHS) = 2 THEN <<RHS[2]>> \o lastNextSyms
                      ELSE lastNextSyms),
   terminals |-> IF rule.terminal THEN lastPath.terminals \o <<" ">> \o RHS[1]
                 ELSE lastPath.terminals,
   symsCount |-> lastPath.symsCount + Len(RHS),
   rules |-> Append(lastPath.rules, RHS),
   root |-> lastPath.root]

AddPathOverwrite(pathSets, newPath) ==
  IF \E i \in 1..Len(pathSets) : pathSets[i].term = newPath.terminals
  THEN [i \in 1..Len(pathSets) |->
          IF pathSets[i].term = newPath.terminals
          THEN [pathSets[i] EXCEPT !.paths = <<newPath>>]
          ELSE pathSets[i]]
  ELSE Append(pathSets, [term |-> newPath.terminals, paths |-> <<newPath>>])

\* pathSets is the sequence of its entries [term, paths] in key order.
\* The set after the new path is added under its terminals.
AddPath(pathSets, newPath) ==
  IF \E i \in 1..Len(pathSets) : pathSets[i].term = newPath.terminals
  THEN [i \in 1..Len(pathSets) |->
          IF pathSets[i].term = newPath.terminals
          THEN [pathSets[i] EXCEPT !.paths = Append(@, newPath)]
          ELSE pathSets[i]]
  ELSE Append(pathSets, [term |-> newPath.terminals, paths |-> <<newPath>>])

ExpandWithoutLimit(newPath, symsLimit) == newPath.nextSym # NoSym

ExpandWithinLimitInclusive(newPath, symsLimit) ==
  newPath.nextSym # NoSym /\ newPath.symsCount <= symsLimit

\* newPath.nextSym && newPath.symsCount < opts.symsLimit
ExpandWithinLimit(newPath, symsLimit) ==
  newPath.nextSym # NoSym /\ newPath.symsCount < symsLimit

\* buildPaths(pathSets, lastPath), from rule number r of lastPath.nextSym on:
\* the pathSets after the call.
RECURSIVE buildPaths(_, _, _, _, _)
buildPaths(g, symsLimit, pathSets, lastPath, r) ==
  LET rules == g.rules[lastPath.nextSym] IN
  IF r > Len(rules) THEN pathSets
  ELSE IF IsEdit(rules[r])
  THEN buildPaths(g, symsLimit, pathSets, lastPath, r + 1)
  ELSE LET newPath == NextPath(lastPath, rules[r])
           added == AddPath(pathSets, newPath)
           expanded == IF ExpandWithinLimit(newPath, symsLimit)
                       THEN buildPaths(g, symsLimit, added, newPath, 1)
                       ELSE added
       IN buildPaths(g, symsLimit, expanded, lastPath, r + 1)

\* The first loop of searchPaths: one pathSets per non-edit rule of nontermSym.
RECURSIVE InitPathTab(_, _)
InitPathTab(rules, r) ==
  IF r > Len(rules) THEN <<>>
  ELSE IF IsEdit(rules[r]) THEN InitPathTab(rules, r + 1)
  ELSE LET newPath == RootPath(rules[r], r) IN
       << <<[term |-> newPath.terminals, paths |-> <<newPath>>]>> >>
         \o InitPathTab(rules, r + 1)

\* The second loop of searchPaths: every root path that has a nextSym is
\* expanded (the keys of pathSets are those it had when the loop began).
ExpandPathTab(g, symsLimit, pathTab) ==
  [p \in 1..Len(pathTab) |->
     LET path == pathTab[p][1].paths[1] IN
     IF path.nextSym # NoSym
     THEN buildPaths(g, symsLimit, pathTab[p], path, 1)
     ELSE pathTab[p]]

\* ----------------------------------------------------------------- trees
\* A node is [symbol, hasChildren, children]; a node without the `children`
\* property has hasChildren = FALSE.
Leaf(sym) == [symbol |-> sym, hasChildren |-> FALSE, children |-> <<>>]

\* lhsSym[0] === '['
IsNontermName(sym) == sym # <<>> /\ sym[1] = "["

\* rulesToTree(lhsSym, rules): the node and what is left of `rules`, which
\* the calls share and shift.
RECURSIVE rulesToTree(_, _), ChildrenToTrees(_, _, _)
rulesToTree(lhsSym, rules) ==
  IF IsNontermName(lhsSym) /\ rules # <<>>
  THEN LET c == ChildrenToTrees(Head(rules), 1, Tail(rules)) IN
       [node |-> [symbol |-> lhsSym, hasChildren |-> TRUE,
                  children |-> c.nodes],
        rest |-> c.rest]
  ELSE [node |-> Leaf(lhsSym), rest |-> rules]

ChildrenToTrees(ruleRHS, r, rules) ==
  IF r > Len(ruleRHS) THEN [nodes |-> <<>>, rest |-> rules]
  ELSE LET first == rulesToTree(ruleRHS[r], rules)
           others == ChildrenToTrees(ruleRHS, r + 1, first.rest)
       IN [nodes |-> <<first.node>> \o others.nodes, rest |-> others.rest]

nodesEqualBySymbol(a, b) == a.symbol = b.symbol

\* nodesEqual(a, b)
RECURSIVE nodesEqual(_, _)
nodesEqual(a, b) ==
  IF a.symbol # b.symbol THEN FALSE
  ELSE IF ~a.hasChildren /\ ~b.hasChildren THEN TRUE
  ELSE IF a.hasChildren /\ b.hasChildren
          /\ Len(a.children) = Len(b.children)
  THEN \A n \in 1..Len(a.children) : nodesEqual(a.children[n], b.children[n])
  ELSE FALSE

\* A node object of invertTree is named by the position of its node: the
\* child indices from the root; `par` is the position without its last index
\* and the root has no `par`.
RECURSIVE NodeAt(_, _)
NodeAt(tree, pos) ==
  IF pos = <<>> THEN tree ELSE NodeAt(tree.children[Head(pos)], Tail(pos))

Par(pos) == SubSeq(pos, 1, Len(pos) - 1)

\* invertTree(tree): the positions of the nodes without children, leftmost
\* first.
RECURSIVE invertTree(_, _)
invertTree(tree, pos) ==
  IF ~tree.hasChildren THEN <<pos>>
  ELSE LET RECURSIVE Kids(_)
           Kids(c) == IF c > Len(tree.children) THEN <<>>
                      ELSE invertTree(tree.children[c], Append(pos, c))
                             \o Kids(c + 1)
       IN Kids(1)

\* The tree as it is once `children` has been deleted from the nodes at the
\* positions in del: the node objects below a deleted position stay as they
\* were, only unreachable from the root.
RECURSIVE Trimmed(_, _, _)
Trimmed(tree, del, pos) ==
  IF ~tree.hasChildren \/ pos \in del THEN Leaf(tree.symbol)
  ELSE [symbol |-> tree.symbol, hasChildren |-> TRUE,
        children |-> [c \in 1..Len(tree.children) |->
                        Trimmed(tree.children[c], del, Append(pos, c))]]

\* The node object at pos as diffTrees sees it.
NodeNow(tree, del, pos) == Trimmed(NodeAt(tree, pos), { SubSeq(d, Len(pos) + 1, Len(d)) :
    d \in { e \in del : Len(e) >= Len(pos) /\ SubSeq(e, 1, Len(pos)) = pos } }, <<>>)

\* The while loop of diffTrees from the node objects at posA and posB: where
\* it stops, or threw when it reads `.node` of the missing `par` of a root.
RECURSIVE WalkUp(_, _, _, _, _, _)
WalkUp(a, delA, posA, b, delB, posB) ==
  IF posA = <<>> \/ posB = <<>>
  THEN [threw |-> TRUE, posA |-> posA, posB |-> posB]
  ELSE IF nodesEqual(NodeNow(a, delA, Par(posA)), NodeNow(b, delB, Par(posB)))
  THEN WalkUp(a, delA, Par(posA), b, delB, Par(posB))
  ELSE [threw |-> FALSE, posA |-> posA, posB |-> posB]

\* The for loop of diffTrees from leaf number n on.
RECURSIVE DiffLoop(_, _, _, _, _, _, _)
DiffLoop(a, delA, invA, b, delB, invB, n) ==
  LET minTreeWidth == IF Len(invA) < Len(invB) THEN Len(invA) ELSE Len(invB) IN
  IF n > minTreeWidth THEN [threw |-> FALSE, delA |-> delA, delB |-> delB]
  ELSE LET w == WalkUp(a, delA, invA[n], b, delB, invB[n]) IN
       IF w.threw THEN [threw |-> TRUE, delA |-> delA, delB |-> delB]
       ELSE DiffLoop(a, delA \cup {w.posA}, invA,
                     b, delB \cup {w.posB}, invB, n + 1)

diffTreesSecondOnly(a, b) ==
  LET d == DiffLoop(a, {}, invertTree(a, <<>>), b, {}, invertTree(b, <<>>), 1)
  IN [threw |-> d.threw, a |-> a, b |-> Trimmed(b, d.delB, <<>>)]

\* diffTrees(a, b): the two trees afterwards, or threw (a TypeError).
diffTrees(a, b) ==
  LET d == DiffLoop(a, {}, invertTree(a, <<>>), b, {}, invertTree(b, <<>>), 1)
  IN [threw |-> d.threw,
      a |-> Trimmed(a, d.delA, <<>>), b |-> Trimmed(b, d.delB, <<>>)]

\* pairExists(ambigPairs, treeA, treeB)
pairExists(ambigPairs, treeA, treeB) ==
  \E i \in 1..Len(ambigPairs) :
    \/ nodesEqual(ambigPairs[i][1], treeA) /\ nodesEqual(ambigPairs[i][2], treeB)
    \/ nodesEqual(ambigPairs[i][1], treeB) /\ nodesEqual(ambigPairs[i][2], treeA)

\* -------------------------------------------------------- findAmbiguity
Unsorted(paths) == paths

\* pathsA.sort(function (a, b) { return a.symsCount - b.symsCount }),
\* paths of equal symsCount keeping their order.
RECURSIVE SortBySymsCount(_)
SortBySymsCount(paths) ==
  IF paths = <<>> THEN <<>>
  ELSE LET sorted == SortBySymsCount(SubSeq(paths, 1, Len(paths) - 1))
           last == paths[Len(paths)]
           k == Cardinality({ i \in 1..Len(sorted) :
                                sorted[i].symsCount <= last.symsCount })
       IN SubSeq(sorted, 1, k) \o <<last>> \o SubSeq(sorted, k + 1, Len(sorted))

\* listsEqual(a, b)
RECURSIVE listsEqual(_, _)
listsEqual(a, b) ==
  IF a = <<>> /\ b = <<>> THEN TRUE
  ELSE IF a = <<>> \/ b = <<>> THEN FALSE
  ELSE IF Head(a) # Head(b) THEN FALSE
  ELSE listsEqual(Tail(a), Tail(b))

FringeEqualListsOnly(pathA, pathB) ==
  listsEqual(pathB.nextSyms, pathA.nextSyms)

\* pathB.nextSym === nextSym && listsEqual(pathB.nextSyms, nextSyms)
FringeEqual(pathA, pathB) ==
  pathB.nextSym = pathA.nextSym /\ listsEqual(pathB.nextSyms, pathA.nextSyms)

\* The paths of pathSets under the key terminals (<<>> when there are none).
PathsUnder(pathSets, terminals) ==
  IF \E i \in 1..Len(pathSets) : pathSets[i].term = terminals
  THEN pathSets[CHOOSE i \in 1..Len(pathSets) : pathSets[i].term = terminals].paths
  ELSE <<>>

\* The state of findAmbiguity: the warnings printed, ambigPairs,
\* foundAmbiguity, whether diffTrees threw, and the symbols named by the
\* errors printed.
NoFindings == [warnings |-> <<>>, ambigPairs |-> <<>>,
               foundAmbiguity |-> FALSE, threw |-> FALSE, errors |-> <<>>]

\* The loop over pathsB (index o) for one pathA: the state after it and
\* whether it was left by a break (o < pathsBLen).
RECURSIVE LoopPathsB(_, _, _, _, _, _)
LoopPathsB(st, o_, nontermSym, pathA, pathsB, o) ==
  IF o > Len(pathsB) THEN [st |-> st, broke |-> FALSE]
  ELSE IF ~FringeEqual(pathA, pathsB[o])
  THEN LoopPathsB(st, o_, nontermSym, pathA, pathsB, o + 1)
  ELSE LET pathB == pathsB[o]
           found == [st EXCEPT !.foundAmbiguity = TRUE]
       IN IF o_.noOutput THEN [st |-> found, broke |-> TRUE]
          ELSE LET treeA == rulesToTree(nontermSym, pathA.rules).node
                   treeB == rulesToTree(nontermSym, pathB.rules).node
                   d == diffTrees(treeA, treeB)
               IN IF d.threw
                  THEN [st |-> [found EXCEPT !.threw = TRUE], broke |-> TRUE]
                  ELSE IF ~o_.findAll \/ ~pairExists(st.ambigPairs, d.a, d.b)
                  THEN LET printed ==
                             [found EXCEPT !.warnings = Append(@,
                                [sym |-> nontermSym, treeA |-> d.a,
                                 treeB |-> d.b, pathA |-> pathA,
                                 pathB |-> pathB])]
                       IN IF o_.findAll
                          THEN LoopPathsB(
                                 [printed EXCEPT !.ambigPairs =
                                    Append(@, <<d.a, d.b>>)],
                                 o_, nontermSym, pathA, pathsB, o + 1)
                          ELSE [st |-> printed, broke |-> TRUE]
                  ELSE LoopPathsB(found, o_, nontermSym, pathA, pathsB, o + 1)

\* The loop over the sorted pathsA (index p).
RECURSIVE LoopPathsA(_, _, _, _, _, _)
LoopPathsA(st, o_, nontermSym, pathsA, pathsB, p) ==
  IF p > Len(pathsA) THEN [st |-> st, broke |-> FALSE]
  ELSE LET r == LoopPathsB(st, o_, nontermSym, pathsA[p], pathsB, 1) IN
       IF r.broke THEN r
       ELSE LoopPathsA(r.st, o_, nontermSym, pathsA, pathsB, p + 1)

\* The loop over the keys of pathSetsA (index t).
RECURSIVE LoopTerminals(_, _, _, _, _, _)
LoopTerminals(st, o_, nontermSym, pathSetsA, pathSetsB, t) ==
  IF t > Len(pathSetsA) THEN st
  ELSE LET pathsB == PathsUnder(pathSetsB, pathSetsA[t].term) IN
       IF pathsB = <<>>
       THEN LoopTerminals(st, o_, nontermSym, pathSetsA, pathSetsB, t + 1)
       ELSE LET r == LoopPathsA(st, o_, nontermSym,
                                SortBySymsCount(pathSetsA[t].paths), pathsB, 1)
            IN IF r.broke THEN r.st
               ELSE LoopTerminals(r.st, o_, nontermSym, pathSetsA, pathSetsB,
                                  t + 1)

\* The loops over the pairs a < b of pathTab.
RECURSIVE LoopPairs(_, _, _, _, _, _)
LoopPairs(st, o_, nontermSym, pathTab, a, b) ==
  IF st.threw \/ a > Len(pathTab) THEN st
  ELSE IF b > Len(pathTab)
  THEN LoopPairs(st, o_, nontermSym, pathTab, a + 1, a + 2)
  ELSE LoopPairs(LoopTerminals(st, o_, nontermSym, pathTab[a], pathTab[b], 1),
                 o_, nontermSym, pathTab, a, b + 1)

\* 'ambig'
Ambig == <<"a", "m", "b", "i", "g">>

IsTestRuleNameAnywhere(nontermSym) == IndexOf(nontermSym, Ambig) # -1

\* nontermSym.indexOf('ambig') === 1
IsTestRuleName(nontermSym) == IndexOf(nontermSym, Ambig) = 1

\* The end of findAmbiguity, after its loops have left the state st: the
\* error of the test rules.
TestRuleError(st, o_, nontermSym) ==
  IF ~st.threw /\ ~st.foundAmbiguity /\ o_.useTestRules
     /\ IsTestRuleName(nontermSym)
  THEN [st EXCEPT !.errors = <<nontermSym>>]
  ELSE st

\* findAmbiguity(pathTab): the loops, then the error of the test rules.
findAmbiguity(o_, nontermSym, pathTab) ==
  TestRuleError(LoopPairs(NoFindings, o_, nontermSym, pathTab, 1, 2),
                o_, nontermSym)

\* The pathTab of nontermSym when searchPaths calls findAmbiguity.
PathTabOf(g, o_, nontermSym) ==
  ExpandPathTab(g, o_.symsLimit, InitPathTab(g.rules[nontermSym], 1))

\* searchPaths(nontermSym)
searchPaths(g, o_, nontermSym) ==
  LET first == InitPathTab(g.rules[nontermSym], 1) IN
  IF Len(first) = 1 THEN NoFindings
  ELSE findAmbiguity(o_, nontermSym, ExpandPathTab(g, o_.symsLimit, first))

\* The loop of module.exports(grammar, opts) over the symbols of the grammar,
\* from the symbol at position i of the keys on: the warnings and the errors
\* it prints and whether it threw.
RECURSIVE Detect(_, _, _)
Detect(g, o_, i) ==
  IF i > Len(g.keys)
  THEN [warnings |-> <<>>, errors |-> <<>>, threw |-> FALSE]
  ELSE LET f == searchPaths(g, o_, g.keys[i]) IN
       IF f.threw
       THEN [warnings |-> f.warnings, errors |-> f.errors, threw |-> TRUE]
       ELSE LET rest == Detect(g, o_, i + 1) IN
            [warnings |-> f.warnings \o rest.warnings,
             errors |-> f.errors \o rest.errors, threw |-> rest.threw]

\* ------------------------------------------------ the grammars searched
\* A grammar is authored by a script of constructor and addRule calls, then
\* edit rules are generated, then the detector is called.
NewSym(x) == [op |-> "Symbol", chunks |-> <<<<x>>>>]
Nt(x) == SymbolName(<<<<x>>>>)
Unary(lhs, a) ==
  [op |-> "addRule", sym |-> Nt(lhs),
   opts |-> NontermOpts(<<SymbolObj(Nt(a))>>, <<>>, <<>>)]
Binary(lhs, a, b, transpositionCost) ==
  [op |-> "addRule", sym |-> Nt(lhs),
   opts |-> NontermOpts(<<SymbolObj(Nt(a)), SymbolObj(Nt(b))>>, <<>>,
                        transpositionCost)]
Term(lhs, str) ==
  [op |-> "addRule", sym |-> Nt(lhs),
   opts |-> [hasRHS |-> TRUE, terminal |-> TRUE,
             RHS |-> [kind |-> "String", str |-> str],
             semantic |-> <<>>, transpositionCost |-> <<>>]]

\* The grammar after the calls of the script from call number i on.
RECURSIVE Author(_, _, _)
Author(g, script, i) ==
  IF i > Len(script) THEN g
  ELSE LET c == script[i] IN
       IF c.op = "Symbol"
       THEN LET r == SymbolCtor(g.keys, g.rules, c.chunks) IN
            Author([keys |-> r.keys, rules |-> r.rulesOf], script, i + 1)
       ELSE LET r == addRule(g.rules[c.sym], c.opts) IN
            Author([g EXCEPT !.rules[c.sym] = r.rules], script, i + 1)

EmptyGrammar == [keys |-> <<>>, rules |-> [n \in {} |-> <<>>]]

Symbols(names) == [i \in 1..Len(names) |-> NewSym(names[i])]

\* S -> A | B, A -> "x", B -> "x"
DirectScript ==
  Symbols(<<"S", "A", "B">>) \o
  << Unary("S", "A"), Unary("S", "B"), Term("A", <<"x">>), Term("B", <<"x">>) >>

\* S -> A | B, A -> X, X -> "x", B -> "x"
DepthScript ==
  Symbols(<<"S", "A", "B", "X">>) \o
  << Unary("S", "A"), Unary("S", "B"), Unary("A", "X"), Term("X", <<"x">>),
     Term("B", <<"x">>) >>

\* S -> A C | B C, A -> "x", B -> "x", C -> "y"
IndirectScript ==
  Symbols(<<"S", "A", "B", "C">>) \o
  << Binary("S", "A", "C", <<1>>), Binary("S", "B", "C", <<>>),
     Term("A", <<"x">>), Term("B", <<"x">>), Term("C", <<"y">>) >>

\* S -> A | "x", A -> S
CycleScript ==
  Symbols(<<"S", "A">>) \o
  << Unary("S", "A"), Term("S", <<"x">>), Unary("A", "S") >>

\* S -> A C | B C, A -> X X, B -> X X, X -> "x", C -> "y"
StackScript ==
  Symbols(<<"S", "A", "B", "X", "C">>) \o
  << Binary("S", "A", "C", <<>>), Binary("S", "B", "C", <<>>),
     Binary("A", "X", "X", <<>>), Binary("B", "X", "X", <<>>),
     Term("X", <<"x">>), Term("C", <<"y">>) >>

\* S -> A | B | X, A -> "x", B -> "x", X -> "x"
ThreeScript ==
  Symbols(<<"S", "A", "B", "X">>) \o
  << Unary("S", "A"), Unary("S", "B"), Unary("S", "X"), Term("A", <<"x">>),
     Term("B", <<"x">>), Term("X", <<"x">>) >>

\* S -> A | B, A -> X C, B -> "x", X -> "x", C -> "y"
UnambiguousScript ==
  Symbols(<<"S", "A", "B", "X", "C">>) \o
  << Unary("S", "A"), Unary("S", "B"), Binary("A", "X", "C", <<1>>),
     Term("B", <<"x">>), Term("X", <<"x">>), Term("C", <<"y">>) >>

\* S -> A C | B, A -> "x", C -> "y", B -> "x y"
WidthScript ==
  Symbols(<<"S", "A", "B", "C">>) \o
  << Binary("S", "A", "C", <<>>), Unary("S", "B"), Term("A", <<"x">>),
     Term("C", <<"y">>), Term("B", <<"x", " ", "y">>) >>

\* S -> S A | A, A -> "x"
LeftRecursiveScript ==
  Symbols(<<"S", "A">>) \o
  << Binary("S", "S", "A", <<>>), Unary("S", "A"), Term("A", <<"x">>) >>

\* S -> A S | A, A -> "x"
RightRecursiveScript ==
  Symbols(<<"S", "A">>) \o
  << Binary("S", "A", "S", <<>>), Unary("S", "A"), Term("A", <<"x">>) >>

\* S -> A | "x", A -> S, T -> B | C, B -> "y", C -> "y"
CycleThenDirectScript ==
  Symbols(<<"S", "A", "T", "B", "C">>) \o
  << Unary("S", "A"), Term("S", <<"x">>), Unary("A", "S"),
     Unary("T", "B"), Unary("T", "C"), Term("B", <<"y">>), Term("C", <<"y">>) >>

\* S -> C | B | D, B -> Z | C, Z -> C, D -> C, C -> "x"
OrderScript ==
  Symbols(<<"S", "B", "C", "D", "Z">>) \o
  << Unary("S", "C"), Unary("S", "B"), Unary("S", "D"),
     Unary("B", "Z"), Unary("B", "C"), Unary("Z", "C"), Unary("D", "C"),
     Term("C", <<"x">>) >>

\* S -> A | B, A -> X | "y", X -> "x", B -> "x" | "y"
KeyOrderScript ==
  Symbols(<<"S", "A", "B", "X">>) \o
  << Unary("S", "A"), Unary("S", "B"), Unary("A", "X"), Term("A", <<"y">>),
     Term("X", <<"x">>), Term("B", <<"x">>), Term("B", <<"y">>) >>

\* S -> A C | B D, A -> "[x", B -> "[x", C -> "y", D -> "y": a terminal
\* symbol that begins with a bracket.
BracketScript ==
  Symbols(<<"S", "A", "B", "C", "D">>) \o
  << Binary("S", "A", "C", <<>>), Binary("S", "B", "D", <<>>),
     Term("A", <<"[", "x">>), Term("B", <<"[", "x">>),
     Term("C", <<"y">>), Term("D", <<"y">>) >>

Scripts == { DirectScript, DepthScript, IndirectScript, CycleScript,
             StackScript, ThreeScript, UnambiguousScript, WidthScript,
             LeftRecursiveScript, RightRecursiveScript, CycleThenDirectScript,
             OrderScript, KeyOrderScript, BracketScript }

\* The edit rules that can be generated from the binary rule at index i of
\* the symbol n: the insertion of its first symbol (insertionIdx 0, the
\* second symbol is left), the insertion of its second symbol, and, for a
\* rule with a transposition cost, the transposition.
EditRulesOf(g, n, i) ==
  LET rule == g.rules[n][i]
      ins(k) == [rule EXCEPT !.RHS = <<rule.RHS[2 - k]>>,
                             !.insertionIdx = <<k>>,
                             !.transpositionCost = <<>>,
                             !.cost = rule.cost + 1]
      trans == [rule EXCEPT !.RHS = <<rule.RHS[2], rule.RHS[1]>>,
                            !.transposition = TRUE,
                            !.transpositionCost = <<>>,
                            !.cost = rule.cost + rule.transpositionCost[1]]
  IN IF rule.terminal \/ Len(rule.RHS) # 2 THEN <<>>
     ELSE << [sym |-> n, rule |-> ins(0)], [sym |-> n, rule |-> ins(1)] >>
          \o (IF rule.transpositionCost # <<>>
              THEN << [sym |-> n, rule |-> trans] >> ELSE <<>>)

\* All the edit rules that can be generated for g, in the order of its keys
\* and rules.
RECURSIVE EditCandidates(_, _, _)
EditCandidates(g, k, i) ==
  IF k > Len(g.keys) THEN <<>>
  ELSE IF i > Len(g.rules[g.keys[k]]) THEN EditCandidates(g, k + 1, 1)
  ELSE EditRulesOf(g, g.keys[k], i) \o EditCandidates(g, k, i + 1)

\* g with the candidates whose numbers are in chosen appended to the rule
\* lists of their symbols, a candidate whose RHS the symbol already has
\* being suppressed.
RECURSIVE WithEditRules(_, _, _, _)
WithEditRules(g, cands, chosen, c) ==
  IF c > Len(cands) THEN g
  ELSE IF c \notin chosen
          \/ \E i \in 1..Len(g.rules[cands[c].sym]) :
               g.rules[cands[c].sym][i].RHS = cands[c].rule.RHS
  THEN WithEditRules(g, cands, chosen, c + 1)
  ELSE WithEditRules([g EXCEPT !.rules[cands[c].sym] =
                        Append(@, cands[c].rule)], cands, chosen, c + 1)

\* The grammars the detector is called on.
Grammars ==
  UNION { LET g == Author(EmptyGrammar, script, 1)
              cands == EditCandidates(g, 1, 1)
          IN { WithEditRules(g, cands, chosen, 1) :
                 chosen \in { e \in SUBSET (1..Len(cands)) :
                                Cardinality(e) <= MaxEditRules } }
        : script \in Scripts }

\* The grammar of ambiguous test rules that replaces the grammar when
\* opts.useTestRules is set.  [P], [Q], [R] and [W] are its helpers; of the
\* test symbols,
\*   [ambig-d] -> [P] | [Q]   is ambiguous,
\*   [ambig-h] -> [W] | [Q]   is ambiguous one rule deeper ([W] -> [P]),
\*   [unambig] -> [P] | [R]   is not ambiguous,
\*   [ambig-o] -> [P]         has a single rule, and
\*   [ambig-z]                has no rule.
TestSym(chunks) == [op |-> "Symbol", chunks |-> chunks]

TestRule(lhsChunks, a) ==
  [op |-> "addRule", sym |-> SymbolName(lhsChunks),
   opts |-> NontermOpts(<<SymbolObj(Nt(a))>>, <<>>, <<>>)]

TestSymbols ==
  << <<Ambig, <<"d">>>>, <<Ambig, <<"h">>>>, <<<<"u", "n">> \o Ambig>>,
     <<Ambig, <<"o">>>>, <<Ambig, <<"z">>>> >>

ambiguityExamples ==
  Symbols(<<"P", "Q", "R", "W">>) \o
  << Term("P", <<"x">>), Term("Q", <<"x">>), Term("R", <<"y">>),
     Unary("W", "P") >> \o
  [i \in 1..Len(TestSymbols) |-> TestSym(TestSymbols[i])] \o
  << TestRule(TestSymbols[1], "P"), TestRule(TestSymbols[1], "Q"),
     TestRule(TestSymbols[2], "W"), TestRule(TestSymbols[2], "Q"),
     TestRule(TestSymbols[3], "P"), TestRule(TestSymbols[3], "R"),
     TestRule(TestSymbols[4], "P") >>

TestGrammar == Author(EmptyGrammar, ambiguityExamples, 1)

\* The options the detector is called with.
DetectorOpts ==
  [symsLimit : 1..MaxSymsLimit, findAll : BOOLEAN, useTestRules : BOOLEAN,
   noOutput : BOOLEAN]

\* --------------------------------------------------------- the detector run
Grammar == [keys |-> grammarKeys, rules |-> symRules]

\* module.exports(grammar, opts) has been called on a compiled grammar.
InitDetect ==
  /\ \E g \in Grammars : grammarKeys = g.keys /\ symRules = g.rules
  /\ lastCall = NoCall
  /\ detOpts \in DetectorOpts
  /\ status = "called"
  /\ symIdx = 0
  /\ warnings = <<>>
  /\ errors = <<>>
  /\ tab = <<>>
  /\ rootIdx = 0
  /\ stack = <<>>
  /\ InitTools

ReplacesGrammarAlways(o_) == TRUE

\* if (opts.useTestRules): the rules of the grammar are deleted
ReplacesGrammar(o_) == o_.useTestRules

\* The beginning of module.exports: with opts.useTestRules the rules of the
\* grammar are deleted and the test rules are built in their place; then the
\* loop over the symbols begins.
Enter ==
  /\ status = "called"
  /\ IF ReplacesGrammar(detOpts)
     THEN grammarKeys' = TestGrammar.keys /\ symRules' = TestGrammar.rules
     ELSE UNCHANGED <<grammarKeys, symRules>>
  /\ status' = "searching"
  /\ symIdx' = 1
  /\ UNCHANGED toolVars
  /\ UNCHANGED <<lastCall, detOpts, warnings, errors, tab, rootIdx, stack>>

\* What the findings f of the search of one symbol do to the run: its
\* warnings and errors are printed, and the loop over the symbols goes on to
\* the next symbol unless the search threw.
Report(f) ==
  /\ warnings' = warnings \o f.warnings
  /\ errors' = errors \o f.errors
  /\ status' = IF f.threw THEN "threw" ELSE "searching"
  /\ symIdx' = IF f.threw THEN symIdx ELSE symIdx + 1

\* One iteration of `for (var nontermSym in grammar) searchPaths(nontermSym)`.
SearchPaths ==
  /\ status = "searching"
  /\ symIdx <= Len(grammarKeys)
  /\ Report(searchPaths(Grammar, detOpts, grammarKeys[symIdx]))
  /\ UNCHANGED toolVars
  /\ UNCHANGED <<grammarKeys, symRules, lastCall, detOpts, tab, rootIdx,
                 stack>>

\* The loop over the symbols has ended and module.exports returns.
Return ==
  /\ status = "searching"
  /\ symIdx > Len(grammarKeys)
  /\ status' = "returned"
  /\ UNCHANGED toolVars
  /\ UNCHANGED <<grammarKeys, symRules, lastCall, detOpts, symIdx, warnings,
                 errors, tab, rootIdx, stack>>

NextDetect == Enter \/ SearchPaths \/ Return

SpecDetect == InitDetect /\ [][NextDetect]_vars

\* ------------------------------------------- the detector run, step by step
\* The same run with searchPaths taken one step at a time: its first loop,
\* then its second loop with every iteration of every buildPaths call, then
\* findAmbiguity.

\* The first loop of searchPaths(nontermSym) and the exit when pathTab holds
\* one set.
RootPaths ==
  /\ status = "searching"
  /\ symIdx <= Len(grammarKeys)
  /\ LET first == InitPathTab(symRules[grammarKeys[symIdx]], 1) IN
     IF Len(first) = 1
     THEN /\ symIdx' = symIdx + 1
          /\ UNCHANGED <<status, tab, rootIdx>>
     ELSE /\ status' = "expanding"
          /\ tab' = first
          /\ rootIdx' = 1
          /\ UNCHANGED symIdx
  /\ UNCHANGED toolVars
  /\ UNCHANGED <<grammarKeys, symRules, lastCall, detOpts, warnings, errors,
                 stack>>

\* One iteration of the second loop of searchPaths, up to the call of
\* buildPaths(pathSets, path) when the root path has a nextSym.
ExpandRoot ==
  /\ status = "expanding"
  /\ stack = <<>>
  /\ rootIdx <= Len(tab)
  /\ LET path == tab[rootIdx][1].paths[1] IN
     IF path.nextSym # NoSym
     THEN stack' = <<[lastPath |-> path, r |-> 1]>> /\ UNCHANGED rootIdx
     ELSE rootIdx' = rootIdx + 1 /\ UNCHANGED stack
  /\ UNCHANGED toolVars
  /\ UNCHANGED <<grammarKeys, symRules, lastCall, detOpts, status, symIdx,
                 warnings, errors, tab>>

\* One iteration of the loop over the rules in the innermost buildPaths call
\* (its rule number r, up to the recursive call), or the return of that call
\* when the loop has ended.  The model follows the recursion as far as
\* MaxSymsLimit + 1 calls deep.
BuildPaths ==
  /\ status = "expanding"
  /\ stack # <<>>
  /\ Len(stack) <= MaxSymsLimit
  /\ LET top == stack[Len(stack)]
         rules == symRules[top.lastPath.nextSym]
         below == SubSeq(stack, 1, Len(stack) - 1)
         next == Append(below, [top EXCEPT !.r = @ + 1])
     IN IF top.r > Len(rules)
        THEN /\ stack' = below
             /\ rootIdx' = IF below = <<>> THEN rootIdx + 1 ELSE rootIdx
             /\ UNCHANGED tab
        ELSE IF IsEdit(rules[top.r])
        THEN stack' = next /\ UNCHANGED <<tab, rootIdx>>
        ELSE LET newPath == NextPath(top.lastPath, rules[top.r]) IN
             /\ tab' = [tab EXCEPT ![rootIdx] = AddPath(@, newPath)]
             /\ stack' = IF ExpandWithinLimit(newPath, detOpts.symsLimit)
                         THEN Append(next, [lastPath |-> newPath, r |-> 1])
                         ELSE next
             /\ UNCHANGED rootIdx
  /\ UNCHANGED toolVars
  /\ UNCHANGED <<grammarKeys, symRules, lastCall, detOpts, status, symIdx,
                 warnings, errors>>

\* The call findAmbiguity(pathTab) that ends searchPaths.
FindAmbiguity ==
  /\ status = "expanding"
  /\ stack = <<>>
  /\ rootIdx > Len(tab)
  /\ Report(findAmbiguity(detOpts, grammarKeys[symIdx], tab))
  /\ tab' = <<>>
  /\ rootIdx' = 0
  /\ UNCHANGED toolVars
  /\ UNCHANGED <<grammarKeys, symRules, lastCall, detOpts, stack>>

NextSteps ==
  Enter \/ RootPaths \/ ExpandRoot \/ BuildPaths \/ FindAmbiguity \/ Return

SpecSteps == InitDetect /\ [][NextSteps]_vars

\* The run is one thread of control, so it goes on as long as a step can be
\* taken.  FindAmbiguity can be taken exactly when the paths have all been
\* expanded (see EnumerationEnded below), and its fairness is stated with
\* that condition.
StepsButFindAmbiguity ==
  Enter \/ RootPaths \/ ExpandRoot \/ BuildPaths \/ Return

SpecStepsFair ==
  /\ SpecSteps
  /\ WF_vars(StepsButFindAmbiguity)
  /\ <>[](status = "expanding" /\ stack = <<>> /\ rootIdx > Len(tab))
       => []<><<FindAmbiguity>>_vars

\* ------------------------------------------------ the detector: properties
Finished == status \in {"returned", "threw"}

\* A rule that was authored, not generated.
Authored(rule) == rule.insertionIdx = <<>> /\ rule.transposition = FALSE

AuthoredIdx(n) ==
  { r \in 1..Len(symRules[n]) : Authored(symRules[n][r]) }

IsGrammar(script) ==
  LET g == Author(EmptyGrammar, script, 1) IN
  grammarKeys = g.keys /\ symRules = g.rules

\* All the paths of a pathTab.
AllPaths(pathTab) ==
  UNION { UNION { { pathTab[p][t].paths[i] :
                      i \in 1..Len(pathTab[p][t].paths) } :
                  t \in 1..Len(pathTab[p]) } :
          p \in 1..Len(pathTab) }

\* The paths enumerated for nontermSym from its root rule number r.
PathsFrom(nontermSym, r) ==
  { path \in AllPaths(PathTabOf(Grammar, detOpts, nontermSym)) : path.root = r }

SameFringe(pathA, pathB) ==
  /\ pathA.terminals = pathB.terminals
  /\ pathA.nextSym = pathB.nextSym
  /\ pathA.nextSyms = pathB.nextSyms

\* The number of warnings printed on nontermSym for the root rules a and b.
WarningsFor(nontermSym, a, b) ==
  Cardinality({ i \in 1..Len(warnings) :
                  /\ warnings[i].sym = nontermSym
                  /\ warnings[i].pathA.root = a
                  /\ warnings[i].pathB.root = b })

Tree(sym, children) ==
  [symbol |-> sym, hasChildren |-> TRUE, children |-> children]

\* C1: with findAll = false and output enabled, when the detector is over,
\* for every nonterminal and every pair a < b of its authored root rules
\* exactly one warning has been printed if some path from a and some path
\* from b have equal terminals, nextSym and nextSyms, and none otherwise;
\* and for S -> A | B, A -> "x", B -> "x" the only warning is the one on S
\* with the trees S->A->"x" and S->B->"x".
C1_OneWarningPerRulePair ==
  (Finished /\ ~detOpts.findAll /\ ~detOpts.noOutput) =>
    /\ \A k \in 1..Len(grammarKeys) :
         LET n == grammarKeys[k] IN
         \A a, b \in AuthoredIdx(n) :
           a < b =>
             WarningsFor(n, a, b) =
               IF \E pathA \in PathsFrom(n, a), pathB \in PathsFrom(n, b) :
                    SameFringe(pathA, pathB)
               THEN 1 ELSE 0
    /\ IsGrammar(DirectScript) =>
         /\ Len(warnings) = 1
         /\ warnings[1].sym = Nt("S")
         /\ warnings[1].treeA =
              Tree(Nt("S"), <<Tree(Nt("A"), <<Leaf(<<"x">>)>>)>>)
         /\ warnings[1].treeB =
              Tree(Nt("S"), <<Tree(Nt("B"), <<Leaf(<<"x">>)>>)>>)

\* C2: every warning printed is for two paths that start from two different
\* authored root rules of the warning's nonterminal and that have the same
\* terminals, the same nextSym and nextSyms stacks equal symbol for symbol.
C2_WarningsAreFringeEqual ==
  \A i \in 1..Len(warnings) :
    LET w == warnings[i]
        rules == symRules[w.sym]
    IN /\ w.pathA.root # w.pathB.root
       /\ w.pathA.root \in AuthoredIdx(w.sym)
       /\ w.pathB.root \in AuthoredIdx(w.sym)
       /\ w.pathA.rules[1] = rules[w.pathA.root].RHS
       /\ w.pathB.rules[1] = rules[w.pathB.root].RHS
       /\ w.pathA.terminals = w.pathB.terminals
       /\ w.pathA.nextSym = w.pathB.nextSym
       /\ Len(w.pathA.nextSyms) = Len(w.pathB.nextSyms)
       /\ \A k \in 1..Len(w.pathA.nextSyms) :
            w.pathA.nextSyms[k] = w.pathB.nextSyms[k]

\* C2 witness: the detector has returned after printing a warning for two
\* paths whose nextSyms stacks hold two symbols.
C2_Witness ==
  /\ status = "returned"
  /\ \E i \in 1..Len(warnings) : Len(warnings[i].pathA.nextSyms) = 2

\* C3 as stated: for S -> A | B, A -> X, X -> "x", B -> "x" the detector
\* prints no warning with symsLimit = 2 and exactly one with symsLimit = 3.
C3_DepthWarningAtThree ==
  (Finished /\ IsGrammar(DepthScript) /\ ~detOpts.noOutput) =>
    /\ detOpts.symsLimit = 2 => Len(warnings) = 0
    /\ detOpts.symsLimit = 3 => Len(warnings) = 1

\* C3 amended: for S -> A | B, A -> X, X -> "x", B -> "x" the detector
\* prints no warning with symsLimit = 2 nor with symsLimit = 3, and exactly
\* one warning, on S, with symsLimit = 4.
C3_DepthWarningAtFour ==
  (Finished /\ IsGrammar(DepthScript) /\ ~detOpts.noOutput) =>
    /\ status = "returned"
    /\ detOpts.symsLimit \in {2, 3} => Len(warnings) = 0
    /\ detOpts.symsLimit = 4 =>
         (Len(warnings) = 1 /\ warnings[1].sym = Nt("S"))

\* C3 witness: the detector has returned from that grammar with
\* symsLimit = 4 and one warning.
C3_Witness ==
  /\ status = "returned"
  /\ IsGrammar(DepthScript)
  /\ ~detOpts.noOutput
  /\ detOpts.symsLimit = 4
  /\ Len(warnings) = 1

Keep(rule) == Authored(rule)

\* The grammar with every edit rule removed.
WithoutEditRules(g) ==
  [g EXCEPT !.rules = [n \in DOMAIN g.rules |-> SelectSeq(g.rules[n], Keep)]]

\* What a warning prints: the two trees.
Printed(ws) ==
  [i \in 1..Len(ws) |-> <<ws[i].sym, ws[i].treeA, ws[i].treeB>>]

\* A path without the number of its root rule.
Unrooted(pathTab) ==
  [p \in 1..Len(pathTab) |->
     [t \in 1..Len(pathTab[p]) |->
        [term |-> pathTab[p][t].term,
         paths |-> [i \in 1..Len(pathTab[p][t].paths) |->
                      [pathTab[p][t].paths[i] EXCEPT !.root = 0]]]]]

\* C10: edit rules take no part in detection: for every nonterminal the
\* paths enumerated are those enumerated for the grammar with every edit
\* rule removed, and when the detector is over the warnings it printed (and
\* whether it threw) are those of the detector on that grammar.
C10_EditRulesIgnored ==
  LET stripped == WithoutEditRules(Grammar) IN
  /\ \A k \in 1..Len(grammarKeys) :
       Unrooted(PathTabOf(Grammar, detOpts, grammarKeys[k]))
         = Unrooted(PathTabOf(stripped, detOpts, grammarKeys[k]))
  /\ Finished =>
       LET d == Detect(stripped, detOpts, 1) IN
       /\ Printed(warnings) = Printed(d.warnings)
       /\ (status = "threw") = d.threw

\* C10 witness: the detector has returned with a warning on a symbol that
\* has an edit rule, from a grammar in which another symbol has one too.
C10_Witness ==
  /\ status = "returned"
  /\ \E i \in 1..Len(warnings) :
       /\ \E r \in 1..Len(symRules[warnings[i].sym]) :
            ~Authored(symRules[warnings[i].sym][r])
       /\ \E n \in DOMAIN symRules : \E r \in 1..Len(symRules[n]) :
            n # warnings[i].sym /\ symRules[n][r].insertionIdx # <<>>

\* The witnesses among the warnings ws: the nonterminal and the two root rules.
Found(ws) ==
  { <<ws[i].sym, ws[i].pathA.root, ws[i].pathB.root>> : i \in 1..Len(ws) }

\* The witnesses the detector finds on the grammar with symsLimit = k and the
\* other options as they are.
FoundAt(k) ==
  Found(Detect(Grammar, [detOpts EXCEPT !.symsLimit = k], 1).warnings)

\* C11: detection is monotone in symsLimit: when the detector is over, every
\* witness (a nonterminal and a pair of its root rules with a warning) that
\* it finds with a smaller symsLimit on the same grammar is among the
\* witnesses it has found.
C11_MonotoneInSymsLimit ==
  (Finished /\ ~detOpts.noOutput) =>
    \A k \in 1..detOpts.symsLimit : FoundAt(k) \subseteq Found(warnings)

\* The same for the runs that return.
MonotoneWhenReturned ==
  (status = "returned" /\ ~detOpts.noOutput) =>
    \A k \in 1..detOpts.symsLimit : FoundAt(k) \subseteq Found(warnings)

\* ------------------------------------- the run step by step: properties
\* searchPaths has expanded all the paths and is about to call findAmbiguity.
EnumerationEnded ==
  status = "expanding" /\ stack = <<>> /\ rootIdx > Len(tab)

\* The nonterminal searchPaths is searching.
NontermSym == grammarKeys[symIdx]

\* The steps build the pathTab that ExpandPathTab gives, and the run ends
\* with the warnings and the errors that Detect gives.
StepsAgree ==
  /\ EnumerationEnded => tab = PathTabOf(Grammar, detOpts, NontermSym)
  /\ Finished =>
       LET d == Detect(Grammar, detOpts, 1) IN
       /\ warnings = d.warnings
       /\ errors = d.errors
       /\ (status = "threw") = d.threw

\* C12: for every grammar, the left-recursive, the right-recursive and the
\* cyclic ones included, and every symsLimit, the run of the detector comes
\* to an end, and so does the enumeration and comparison of the paths of
\* every nonterminal that it begins.
C12_DetectorTerminates ==
  /\ <>Finished
  /\ (status = "expanding") ~> (status # "expanding")

\* C12 witness: the run has returned from the left-recursive, the
\* right-recursive or the cyclic grammar.
C12_Witness ==
  /\ status = "returned"
  /\ \/ IsGrammar(LeftRecursiveScript)
     \/ IsGrammar(RightRecursiveScript)
     \/ IsGrammar(CycleScript)
  /\ detOpts.symsLimit = MaxSymsLimit

\* C13: the symbol budget bounds every expansion: every path that is being
\* expanded, a root path included, has a symsCount below symsLimit.
C13_NoExpansionAtLimit ==
  \A i \in 1..Len(stack) : stack[i].lastPath.symsCount < detOpts.symsLimit

\* The same for the paths that buildPaths itself goes on to expand.
NonRootExpansionsBelowLimit ==
  \A i \in 2..Len(stack) : stack[i].lastPath.symsCount < detOpts.symsLimit

\* The places <<t, i>> of the paths stored in the set of root rule p.
Stored(p) ==
  UNION { { <<t, i>> : i \in 1..Len(tab[p][t].paths) } : t \in 1..Len(tab[p]) }

StoredPath(p, at) == tab[p][at[1]].paths[at[2]]

\* The places in the set of root rule p of the paths made from path with
\* rule: those whose chain of rules is the chain of path and then the RHS of
\* rule.
ChildrenAt(p, path, rule) ==
  { at \in Stored(p) : StoredPath(p, at).rules = Append(path.rules, rule.RHS) }

\* C14: when the enumeration for a nonterminal ends, for every stored path
\* that has a nextSym and a symsCount below symsLimit, and every authored
\* rule of that nextSym, the set of the path's root rule holds exactly one
\* path made from the path with the rule; it has the terminals of the path,
\* followed by the RHS of the rule when the rule is terminal, and it is
\* stored under the key equal to its terminals.
C14_EnumerationComplete ==
  EnumerationEnded =>
    \A p \in 1..Len(tab) : \A at \in Stored(p) :
      LET path == StoredPath(p, at) IN
      (path.nextSym # NoSym /\ path.symsCount < detOpts.symsLimit) =>
        \A r \in 1..Len(symRules[path.nextSym]) :
          LET rule == symRules[path.nextSym][r] IN
          Authored(rule) =>
            /\ Cardinality(ChildrenAt(p, path, rule)) = 1
            /\ \A c \in ChildrenAt(p, path, rule) :
                 /\ StoredPath(p, c).terminals =
                      IF rule.terminal
                      THEN path.terminals \o <<" ">> \o rule.RHS[1]
                      ELSE path.terminals
                 /\ tab[p][c[1]].term = StoredPath(p, c).terminals

\* C14 witness: the enumeration has ended for a nonterminal with two authored
\* rules, and a stored path that is not a root path has a symsCount below
\* symsLimit and a nextSym with two authored rules and an edit rule.
C14_Witness ==
  /\ EnumerationEnded
  /\ Len(tab) >= 2
  /\ \E p \in 1..Len(tab) : \E at \in Stored(p) :
       LET path == StoredPath(p, at) IN
       /\ Len(path.rules) > 1
       /\ path.nextSym # NoSym
       /\ path.symsCount < detOpts.symsLimit
       /\ Cardinality(AuthoredIdx(path.nextSym)) >= 2
       /\ \E r \in 1..Len(symRules[path.nextSym]) :
            ~Authored(symRules[path.nextSym][r])

\* The pairs of a path from root rule a and a path from root rule b of
\* nontermSym that have the same terminals, nextSym and nextSyms.
FringeEqualPairs(nontermSym, a, b) ==
  { pair \in PathsFrom(nontermSym, a) \X PathsFrom(nontermSym, b) :
      SameFringe(pair[1], pair[2]) }

\* C15: with findAll = false, the pair of paths of every warning is minimal:
\* no pair of paths of the same two root rules with equal terminals, nextSym
\* and nextSyms, under any terminals, has a path from a or a path from b with
\* a smaller symsCount than the warning's.
C15_MinimalWitness ==
  (~detOpts.findAll /\ ~detOpts.noOutput) =>
    \A i \in 1..Len(warnings) :
      LET w == warnings[i] IN
      \A pair \in FringeEqualPairs(w.sym, w.pathA.root, w.pathB.root) :
        /\ pair[1].symsCount >= w.pathA.symsCount
        /\ pair[2].symsCount >= w.pathB.symsCount

\* What the sort does give: under the terminals of the warning, no path from
\* a that is in such a pair has a smaller symsCount than the warning's.
MinimalUnderItsTerminals ==
  (~detOpts.findAll /\ ~detOpts.noOutput) =>
    \A i \in 1..Len(warnings) :
      LET w == warnings[i] IN
      \A pair \in FringeEqualPairs(w.sym, w.pathA.root, w.pathB.root) :
        pair[1].terminals = w.pathA.terminals =>
          pair[1].symsCount >= w.pathA.symsCount

\* The warnings printed on nontermSym, as positions in `warnings`.
WarningsOn(nontermSym) ==
  { i \in 1..Len(warnings) : warnings[i].sym = nontermSym }

\* Two pairs of trees are the same pair, in one order or in the other.
SamePair(a1, b1, a2, b2) ==
  \/ a1 = a2 /\ b1 = b2
  \/ a1 = b2 /\ b1 = a2

\* The pair of trees of two paths of nontermSym after diffTrees.
TrimmedPair(nontermSym, pathA, pathB) ==
  diffTrees(rulesToTree(nontermSym, pathA.rules).node,
            rulesToTree(nontermSym, pathB.rules).node)

DistinctAndComplete ==
  \A k \in 1..Len(grammarKeys) :
    LET n == grammarKeys[k] IN
    /\ \A i, j \in WarningsOn(n) :
         i # j => ~SamePair(warnings[i].treeA, warnings[i].treeB,
                            warnings[j].treeA, warnings[j].treeB)
    /\ \A a, b \in AuthoredIdx(n) :
         a < b =>
           \A pair \in FringeEqualPairs(n, a, b) :
             LET d == TrimmedPair(n, pair[1], pair[2]) IN
             \E i \in WarningsOn(n) :
               SamePair(warnings[i].treeA, warnings[i].treeB, d.a, d.b)

\* C16: with findAll = true, when the detector is over, no two warnings on
\* one nonterminal show the same pair of trimmed trees (in either order), and
\* for every pair of paths from two root rules of a nonterminal that have
\* equal terminals, nextSym and nextSyms, the pair of their trimmed trees is
\* shown by a warning on that nonterminal.
C16_DistinctAndComplete ==
  (Finished /\ detOpts.findAll /\ ~detOpts.noOutput) => DistinctAndComplete

\* The same for the runs that return.
DistinctAndCompleteWhenReturned ==
  (status = "returned" /\ detOpts.findAll /\ ~detOpts.noOutput)
    => DistinctAndComplete

\* The set of paths (the entry of pathTab) of root rule r of nontermSym.
SetOfRoot(nontermSym, r) ==
  LET T == PathTabOf(Grammar, detOpts, nontermSym) IN
  T[CHOOSE p \in 1..Len(T) : T[p][1].paths[1].root = r]

\* The position of the key terminals among the keys of pathSets.
KeyIdx(pathSets, terminals) ==
  CHOOSE t \in 1..Len(pathSets) : pathSets[t].term = terminals

\* The position of path in the array it was pushed to.
PathIdx(pathSets, path) ==
  LET paths == PathsUnder(pathSets, path.terminals) IN
  CHOOSE i \in 1..Len(paths) : paths[i] = path

\* Where the loops of the detector are when they print the warning w:
\* the symbol, the root rules a and b, the key of the set of a and the
\* symsCount of the path from a.
Rank(w) ==
  << CHOOSE k \in 1..Len(grammarKeys) : grammarKeys[k] = w.sym,
     w.pathA.root, w.pathB.root,
     KeyIdx(SetOfRoot(w.sym, w.pathA.root), w.pathA.terminals),
     w.pathA.symsCount >>

\* x comes before y, or is y, in the lexicographic order.
LexLeq(x, y) ==
  \/ x = y
  \/ \E k \in 1..Len(x) : x[k] < y[k] /\ \A m \in 1..(k - 1) : x[m] = y[m]

C18_IndirectOneWarning ==
  ( /\ Finished
    /\ IsGrammar(IndirectScript)
    /\ ~detOpts.findAll /\ ~detOpts.noOutput /\ ~detOpts.useTestRules
    /\ detOpts.symsLimit >= 5 ) =>
    /\ status = "returned"
    /\ Len(warnings) = 1
    /\ warnings[1].sym = Nt("S")
    /\ warnings[1].treeA =
         Tree(Nt("S"), <<Tree(Nt("A"), <<Leaf(<<"x">>)>>), Leaf(Nt("C"))>>)
    /\ warnings[1].treeB =
         Tree(Nt("S"), <<Tree(Nt("B"), <<Leaf(<<"x">>)>>), Leaf(Nt("C"))>>)

\* C18 witness: the detector has returned from that grammar with findAll =
\* false and symsLimit = 5, having enumerated the paths in which C is
\* expanded, and has printed a warning.
C18_Witness ==
  /\ status = "returned"
  /\ IsGrammar(IndirectScript)
  /\ ~detOpts.findAll /\ ~detOpts.noOutput /\ ~detOpts.useTestRules
  /\ detOpts.symsLimit = 5
  /\ Len(warnings) = 1
  /\ \E path \in PathsFrom(Nt("S"), 1) :
       path.terminals # <<>> /\ path.nextSym = NoSym

\* C19: when the detector is over, for every nonterminal and every two paths
\* from two of its root rules that have the same terminals, nextSym and
\* nextSyms, diffTrees on their trees (T1, T2) and diffTrees on (T2, T1)
\* leave T1 in the same form and T2 in the same form, and one throws exactly
\* when the other does.
C19_DiffTreesSymmetric ==
  Finished =>
    \A k \in 1..Len(grammarKeys) :
      LET n == grammarKeys[k] IN
      \A a, b \in AuthoredIdx(n) :
        a < b =>
          \A pair \in FringeEqualPairs(n, a, b) :
            LET ab == TrimmedPair(n, pair[1], pair[2])
                ba == TrimmedPair(n, pair[2], pair[1])
            IN /\ ab.threw = ba.threw
               /\ ab.a = ba.b
               /\ ab.b = ba.a

\* C19 witness: the detector has returned from a run with findAll = true
\* and output enabled, in which diffTrees was called on two different trees
\* and deleted children from both.
C19_Witness ==
  /\ status = "returned"
  /\ detOpts.findAll /\ ~detOpts.noOutput
  /\ \E k \in 1..Len(grammarKeys) :
       LET n == grammarKeys[k] IN
       \E a, b \in AuthoredIdx(n) :
         /\ a < b
         /\ \E pair \in FringeEqualPairs(n, a, b) :
              LET d == TrimmedPair(n, pair[1], pair[2]) IN
              /\ d.a # d.b
              /\ d.a # rulesToTree(n, pair[1].rules).node
              /\ d.b # rulesToTree(n, pair[2].rules).node

\* Some path from a root rule of nontermSym and some path from another have
\* the same terminals, nextSym and nextSyms.
AmbiguousIn(nontermSym) ==
  \E a, b \in AuthoredIdx(nontermSym) :
    a < b /\ FringeEqualPairs(nontermSym, a, b) # {}

\* The symbols the errors printed name.
ErrorSyms == { errors[e] : e \in 1..Len(errors) }

\* C20 as stated: when the detector has returned from a run with
\* useTestRules, every symbol of the test grammar whose name contains
\* `ambig`, at whatever position, and that has no two paths from two root
\* rules with the same terminals, nextSym and nextSyms, however many rules it
\* has, is named by an error.
C20_ErrorForEveryAmbigName ==
  (status = "returned" /\ detOpts.useTestRules) =>
    \A k \in 1..Len(grammarKeys) :
      LET n == grammarKeys[k] IN
      (IndexOf(n, Ambig) # -1 /\ ~AmbiguousIn(n)) => n \in ErrorSyms

\* C20 amended: when the detector has returned from a run with useTestRules,
\* the symbols named by the errors are exactly those whose name has `ambig`
\* at index 1, whose number of non-edit rules is not one and that have no two
\* paths from two root rules with the same terminals, nextSym and nextSyms,
\* each named once; without useTestRules there is no error.
C20_ErrorForAmbigAtIndexOne ==
  status = "returned" =>
    /\ ~detOpts.useTestRules => errors = <<>>
    /\ detOpts.useTestRules =>
         /\ ErrorSyms = { n \in { grammarKeys[k] : k \in 1..Len(grammarKeys) } :
                            /\ IndexOf(n, Ambig) = 1
                            /\ Cardinality(AuthoredIdx(n)) # 1
                            /\ ~AmbiguousIn(n) }
         /\ Cardinality(ErrorSyms) = Len(errors)

\* C20 witness: the detector has returned from a run with useTestRules in
\* which it printed an error, and printed none for a symbol with `ambig`
\* further on in its name nor for a symbol with `ambig` at index 1 and one
\* rule, neither of which is ambiguous.
C20_Witness ==
  /\ status = "returned"
  /\ detOpts.useTestRules
  /\ errors # <<>>
  /\ \E k \in 1..Len(grammarKeys) :
       LET n == grammarKeys[k] IN
       IndexOf(n, Ambig) > 1 /\ ~AmbiguousIn(n) /\ n \notin ErrorSyms
  /\ \E k \in 1..Len(grammarKeys) :
       LET n == grammarKeys[k] IN
       /\ IndexOf(n, Ambig) = 1
       /\ Cardinality(AuthoredIdx(n)) = 1
       /\ n \notin ErrorSyms

\* C21: in a run of the detector without useTestRules no step changes the
\* grammar: it keeps the same symbols in the same order, and every symbol
\* the same rules, in the same order, with the same fields and the same RHS.
C21_GrammarReadOnly ==
  [][~detOpts.useTestRules =>
       /\ grammarKeys' = grammarKeys
       /\ symRules' = symRules]_vars

\* C21 witness: the detector has returned from a run without useTestRules
\* in which it printed a warning and diffTrees deleted children from the
\* trees of two paths, and the grammar is one of those that were authored.
C21_Witness ==
  /\ status = "returned"
  /\ ~detOpts.useTestRules /\ ~detOpts.noOutput /\ detOpts.findAll
  /\ warnings # <<>>
  /\ Grammar \in Grammars
  /\ \E k \in 1..Len(grammarKeys) :
       LET n == grammarKeys[k] IN
       \E a, b \in AuthoredIdx(n) :
         /\ a < b
         /\ \E pair \in FringeEqualPairs(n, a, b) :
              TrimmedPair(n, pair[1], pair[2]).a
                # rulesToTree(n, pair[1].rules).node

\* C22: in every run of the detector every nonterminal of the grammar is
\* eventually searched: the loop over the symbols gets past the last one,
\* whatever warnings were printed on the way.
C22_EverySymbolSearched ==
  <>(status = "returned" /\ symIdx > Len(grammarKeys))

\* What does hold: a run in which diffTrees never throws searches every
\* nonterminal, warnings or not.
EverySymbolSearchedUnlessThrown ==
  <>(status = "threw" \/ (status = "returned" /\ symIdx > Len(grammarKeys)))

\* The symbols of the nodes of a tree that have no `children`, from left to
\* right, each after a space.
RECURSIVE LeafString(_)
LeafString(tree) ==
  IF ~tree.hasChildren THEN <<" ">> \o tree.symbol
  ELSE LET RECURSIVE Kids(_)
           Kids(c) == IF c > Len(tree.children) THEN <<>>
                      ELSE LeafString(tree.children[c]) \o Kids(c + 1)
       IN Kids(1)

\* The symbols of a stack of nextSyms from the top down, each after a space.
RECURSIVE SymsString(_)
SymsString(syms) ==
  IF syms = <<>> THEN <<>>
  ELSE <<" ">> \o Head(syms) \o SymsString(Tail(syms))

\* The terminals of a path followed by its nextSym and its nextSyms.
FringeString(path) ==
  path.terminals
    \o (IF path.nextSym # NoSym THEN <<" ">> \o path.nextSym ELSE <<>>)
    \o SymsString(path.nextSyms)

\* The trees that rulesToTree builds from the rules of the two paths of the
\* warning w, before diffTrees, have the searched nonterminal at the root,
\* have as children of the root the RHS of two different root rules, and
\* have the same leaves from left to right, which joined by spaces are the
\* terminals of the paths followed by nextSym and the nextSyms stack from the
\* top down.
SpellsTheFringe(w) ==
  LET treeA == rulesToTree(w.sym, w.pathA.rules).node
      treeB == rulesToTree(w.sym, w.pathB.rules).node
  IN /\ treeA.symbol = w.sym /\ treeB.symbol = w.sym
     /\ w.pathA.root # w.pathB.root
     /\ treeA.hasChildren /\ treeB.hasChildren
     /\ [c \in 1..Len(treeA.children) |-> treeA.children[c].symbol]
          = symRules[w.sym][w.pathA.root].RHS
     /\ [c \in 1..Len(treeB.children) |-> treeB.children[c].symbol]
          = symRules[w.sym][w.pathB.root].RHS
     /\ LeafString(treeA) = LeafString(treeB)
     /\ LeafString(treeA) = FringeString(w.pathA)

\* C27: for every warning, the two trees rebuilt from the rules of its paths
\* are rooted at the searched nonterminal, start with two different root
\* rules and have the same space-joined leaf string, equal to the paths'
\* terminals followed by nextSym and the nextSyms stack from the top down.
C27_TreesSpellTheFringe ==
  \A i \in 1..Len(warnings) : SpellsTheFringe(warnings[i])

\* A terminal symbol among the terminals of the path begins with a bracket.
BracketTerminal(path) ==
  \E k \in 2..Len(path.terminals) :
    path.terminals[k] = "[" /\ path.terminals[k - 1] = " "

\* What does hold: the same, for the warnings whose paths use no terminal
\* rule for a symbol that begins with a bracket.
TreesSpellTheFringeWithoutBrackets ==
  \A i \in 1..Len(warnings) :
    ~BracketTerminal(warnings[i].pathA) => SpellsTheFringe(warnings[i])

\* C28: diffTrees never walks up past a root: no run of the detector ends by
\* the TypeError of reading the parent of a root, and in every warning
\* printed the roots of the two trees still have their children.
C28_WalkStopsBelowRoot ==
  /\ status # "threw"
  /\ \A i \in 1..Len(warnings) :
       warnings[i].treeA.hasChildren /\ warnings[i].treeB.hasChildren

\* What does hold: diffTrees never deletes the children of a root, in a
\* warning printed or on any two paths with the same terminals, nextSym and
\* nextSyms; when its walk gets to a root it throws.
RootsKeepChildren ==
  /\ \A i \in 1..Len(warnings) :
       warnings[i].treeA.hasChildren /\ warnings[i].treeB.hasChildren
  /\ \A k \in 1..Len(grammarKeys) :
       LET n == grammarKeys[k] IN
       \A a, b \in AuthoredIdx(n) :
         a < b =>
           \A pair \in FringeEqualPairs(n, a, b) :
             LET d == TrimmedPair(n, pair[1], pair[2]) IN
             d.a.hasChildren /\ d.b.hasChildren

\* --------------------------------------------------- terminal rule sets
\* A verb form is a string; "" stands for a form that is not given (undefined
\* or the empty string, which the tests of newVerbSet do not tell apart).
\* A VerbTermSet is a record of the seven forms.
VerbTermSet(oneSg, threeSg, pl, past, subjunctive, participle, pastParticiple) ==
  [oneSg |-> oneSg, threeSg |-> threeSg, pl |-> pl, past |-> past,
   presentSubjunctive |-> subjunctive, presentParticiple |-> participle,
   pastParticiple |-> pastParticiple]

\* util.illFormedOpts(verbTermSetSchema, verbTermSet): oneSg, threeSg and pl
\* are required.
IllFormedVerbTermSet(verbTermSet) ==
  verbTermSet.oneSg = "" \/ verbTermSet.threeSg = "" \/ verbTermSet.pl = ""

\* var verbSetTextForms = { oneSg, threeSg, pl, past }
TextForms(verbTermSet) ==
  [oneSg |-> verbTermSet.oneSg, threeSg |-> verbTermSet.threeSg,
   pl |-> verbTermSet.pl, past |-> verbTermSet.past]

createUntensedRule(terminalSymbol, verbSetTextForms, tense) ==
  [isTerminal |-> TRUE, rhs |-> terminalSymbol, text |-> verbSetTextForms,
   tense |-> <<>>, insertionCost |-> <<>>]

\* createVerbTerminalRule(terminalSymbol, verbSetTextForms, tense); tense is
\* 'present' or 'past' at every call.
createVerbTerminalRule(terminalSymbol, verbSetTextForms, tense) ==
  [isTerminal |-> TRUE, rhs |-> terminalSymbol, text |-> verbSetTextForms,
   tense |-> IF tense = "past" THEN <<"past">> ELSE <<>>,
   insertionCost |-> <<>>]

\* The state of a newVerbSet call: the rules of verbSym, the terminal symbols
\* in addedInlectionTermSyms, and the error thrown ("" when none).
NoVerbRules == [rules |-> <<>>, added |-> {}, thrown |-> ""]

\* verbSym.addRule(rule); addedInlectionTermSyms.push(rule.rhs).  addRule
\* fails with a duplicate rule when the symbol already has a rule with this
\* RHS.
AddVerbRule(st, rule) ==
  IF st.thrown # "" THEN st
  ELSE IF \E r \in 1..Len(st.rules) : st.rules[r].rhs = rule.rhs
  THEN [st EXCEPT !.thrown = "DuplicateRule"]
  ELSE [st EXCEPT !.rules = Append(@, rule), !.added = @ \cup {rule.rhs}]

\* if (addedInlectionTermSyms.indexOf(form) === -1) { addRule; push }, for
\* threeSg and pl.
AddIfUnique(st, form, textForms, tense) ==
  IF st.thrown # "" \/ form \in st.added THEN st
  ELSE AddVerbRule(st, createVerbTerminalRule(form, textForms, tense))

\* if (form && addedInlectionTermSyms.indexOf(form) === -1) { addRule; push },
\* for presentSubjunctive, presentParticiple and pastParticiple.
AddIfGivenAndUnique(st, form, textForms, tense) ==
  IF form = "" THEN st ELSE AddIfUnique(st, form, textForms, tense)

AddPastCollapsing(st, form, textForms) ==
  AddIfGivenAndUnique(st, form, textForms, "past")

\* if (verbTermSet.past) { if (indexOf(past) !== -1) throw; addRule; push }
AddPast(st, form, textForms) ==
  IF st.thrown # "" \/ form = "" THEN st
  ELSE IF form \in st.added THEN [st EXCEPT !.thrown = "Ill-formed verb"]
  ELSE AddVerbRule(st, createVerbTerminalRule(form, textForms, "past"))

\* The forms of a set after oneSg, in the order newVerbSet takes them.
AddOtherForms(st, verbTermSet, textForms) ==
  AddIfGivenAndUnique(
    AddIfGivenAndUnique(
      AddIfGivenAndUnique(
        AddPast(
          AddIfUnique(
            AddIfUnique(st, verbTermSet.threeSg, textForms, "present"),
            verbTermSet.pl, textForms, "present"),
          verbTermSet.past, textForms),
        verbTermSet.presentSubjunctive, textForms, "present"),
      verbTermSet.presentParticiple, textForms, "present"),
    verbTermSet.pastParticiple, textForms, "past")

InsertionCostOnEverySet(options, i) == options.hasInsertionCost

\* i === 0 && options.insertionCost !== undefined
InsertionCostOnRule(options, i) == i = 0 /\ options.hasInsertionCost

\* The oneSg rule of accepted set number i (from 0).
OneSgTermRule(options, verbTermSet, i) ==
  LET oneSgTermRule ==
        createVerbTerminalRule(verbTermSet.oneSg, TextForms(verbTermSet),
                               "present")
  IN IF InsertionCostOnRule(options, i)
     THEN [oneSgTermRule EXCEPT !.insertionCost = <<options.insertionCost>>]
     ELSE oneSgTermRule

\* One call of the function given to options.acceptedVerbTermSets.forEach.
AcceptedSet(st, options, verbTermSet, i) ==
  IF st.thrown # "" THEN st
  ELSE IF IllFormedVerbTermSet(verbTermSet)
  THEN [st EXCEPT !.thrown = "Ill-formed verb"]
  ELSE AddOtherForms(
         AddVerbRule([st EXCEPT !.added = {}],
                     OneSgTermRule(options, verbTermSet, i)),
         verbTermSet, TextForms(verbTermSet))

OwnTextForms(options, verbTermSet) == TextForms(verbTermSet)

\* defaultTextForms: the text forms of the first accepted set.
DefaultTextForms(options, verbTermSet) ==
  TextForms(options.acceptedVerbTermSets[1])

\* One call of the function given to options.substitutedVerbTermSets.forEach.
SubstitutedSet(st, options, verbTermSet) ==
  IF st.thrown # "" THEN st
  ELSE IF IllFormedVerbTermSet(verbTermSet)
  THEN [st EXCEPT !.thrown = "Ill-formed verb"]
  ELSE AddOtherForms(
         AddVerbRule([st EXCEPT !.added = {}],
                     createVerbTerminalRule(
                       verbTermSet.oneSg,
                       DefaultTextForms(options, verbTermSet), "present")),
         verbTermSet, DefaultTextForms(options, verbTermSet))

RECURSIVE AcceptedSets(_, _, _)
AcceptedSets(st, options, i) ==
  IF i >= Len(options.acceptedVerbTermSets) THEN st
  ELSE AcceptedSets(
         AcceptedSet(st, options, options.acceptedVerbTermSets[i + 1], i),
         options, i + 1)

RECURSIVE SubstitutedSets(_, _, _)
SubstitutedSets(st, options, i) ==
  IF i >= Len(options.substitutedVerbTermSets) THEN st
  ELSE SubstitutedSets(
         SubstitutedSet(st, options, options.substitutedVerbTermSets[i + 1]),
         options, i + 1)

\* newVerbSet(options): the rules of the new symbol and the error thrown.
newVerbSet(options) ==
  SubstitutedSets(AcceptedSets(NoVerbRules, options, 0), options, 0)

TerminalRuleLast(rules) == rules[Len(rules)]

\* var terminalRule = options[paramName].rules[0]
TerminalRuleInspected(rules) == rules[1]

\* baseIsVerb(options, paramName, hasPastTense), on the rules of the symbol.
baseIsVerb(rules, hasPastTense) ==
  LET textForms == TerminalRuleInspected(rules).text IN
  IF textForms.oneSg = "" \/ textForms.threeSg = "" \/ textForms.pl = ""
  THEN FALSE
  ELSE IF hasPastTense THEN textForms.past # ""
  ELSE textForms.past = ""

isVerb(rules) == baseIsVerb(rules, TRUE)

isPresentVerb(rules) == baseIsVerb(rules, FALSE)

\* The verb sets the calls are made with: regular verbs, a verb whose forms
\* are all different, verbs whose forms coincide in the ways English verbs do,
\* a verb with no past, and a set that lacks a required form.
VerbTermSets ==
  {VerbTermSet("like", "likes", "like", "liked", "", "liking", "liked"),
   VerbTermSet("love", "loves", "love", "loved", "", "loving", "loved"),
   VerbTermSet("am", "is", "are", "was", "be", "being", "been"),
   VerbTermSet("put", "puts", "put", "put", "", "putting", "put"),
   VerbTermSet("come", "comes", "come", "came", "", "coming", "come"),
   VerbTermSet("can", "can", "can", "", "", "", ""),
   VerbTermSet("was", "was", "was", "were", "were", "", ""),
   VerbTermSet("must", "must", "must", "", "", "", "liked"),
   VerbTermSet("go", "goes", "", "went", "", "", "")}

MaxAccepted == 2
MaxSubstituted == 1

RECURSIVE SeqsUpTo(_, _)
\* The sequences over S of length at most n.
SeqsUpTo(S, n) ==
  IF n = 0 THEN {<<>>}
  ELSE LET shorter == SeqsUpTo(S, n - 1) IN
       shorter \cup {Append(q, x) : q \in shorter, x \in S}

\* The options newVerbSet is called with: at least one accepted set, and
\* insertionCost absent, 0 or 1.
VerbSetOptions ==
  {[symbolName |-> "like", hasInsertionCost |-> c[1], insertionCost |-> c[2],
    acceptedVerbTermSets |-> a, substitutedVerbTermSets |-> b] :
     c \in {<<FALSE, 0>>, <<TRUE, 0>>, <<TRUE, 1>>},
     a \in SeqsUpTo(VerbTermSets, MaxAccepted) \ {<<>>},
     b \in SeqsUpTo(VerbTermSets, MaxSubstituted)}

InitVerbs ==
  /\ grammarKeys = <<>>
  /\ symRules = [n \in {} |-> <<>>]
  /\ lastCall = NoCall
  /\ detOpts = NoOpts
  /\ status = "authoring"
  /\ symIdx = 0
  /\ warnings = <<>>
  /\ errors = <<>>
  /\ tab = <<>>
  /\ rootIdx = 0
  /\ stack = <<>>
  /\ verbOptions \in VerbSetOptions
  /\ verbRules = <<>>
  /\ verbCall = [NoVerbCall EXCEPT !.state = "called"]
  /\ forest = NoForest

\* The effect of a newVerbSet call: the rules added to the symbol stay when
\* the call throws.
VerbSetMade(made) ==
  /\ verbRules' = made.rules
  /\ verbCall' = [verbCall EXCEPT
                    !.state = IF made.thrown = "" THEN "returned" ELSE "threw",
                    !.thrown = made.thrown]

\* g.newVerbSet(verbOptions)
NewVerbSet ==
  /\ verbCall.state = "called"
  /\ VerbSetMade(newVerbSet(verbOptions))
  /\ UNCHANGED <<verbOptions, forest>>
  /\ UNCHANGED authorVars
  /\ UNCHANGED detectorVars

\* g.isVerb({sym: verbSym}, 'sym') on the returned symbol
IsVerb ==
  /\ verbCall.state = "returned"
  /\ verbCall.isVerb = <<>>
  /\ verbCall' = [verbCall EXCEPT !.isVerb = <<isVerb(verbRules)>>]
  /\ UNCHANGED <<verbOptions, verbRules, forest>>
  /\ UNCHANGED authorVars
  /\ UNCHANGED detectorVars

\* g.isPresentVerb({sym: verbSym}, 'sym') on the returned symbol
IsPresentVerb ==
  /\ verbCall.state = "returned"
  /\ verbCall.isPresentVerb = <<>>
  /\ verbCall' = [verbCall EXCEPT
                    !.isPresentVerb = <<isPresentVerb(verbRules)>>]
  /\ UNCHANGED <<verbOptions, verbRules, forest>>
  /\ UNCHANGED authorVars
  /\ UNCHANGED detectorVars

NextVerbs == NewVerbSet \/ IsVerb \/ IsPresentVerb

SpecVerbs == InitVerbs /\ [][NextVerbs]_vars

\* ------------------------------------------- properties of newVerbSet
\* The surface forms a verb set gives.
Forms(verbTermSet) ==
  {verbTermSet.oneSg, verbTermSet.threeSg, verbTermSet.pl, verbTermSet.past,
   verbTermSet.presentSubjunctive, verbTermSet.presentParticiple,
   verbTermSet.pastParticiple} \ {""}

AllVerbTermSets ==
  verbOptions.acceptedVerbTermSets \o verbOptions.substitutedVerbTermSets

VerbCallOver == verbCall.state \in {"returned", "threw"}

\* Every set has its required forms and no form belongs to two sets, so that
\* only forms of one set can coincide.
SeparateWellFormedSets ==
  /\ \A i \in 1..Len(AllVerbTermSets) :
       ~IllFormedVerbTermSet(AllVerbTermSets[i])
  /\ \A i, j \in 1..Len(AllVerbTermSets) :
       i # j => Forms(AllVerbTermSets[i]) \cap Forms(AllVerbTermSets[j]) = {}

RhsOf(rules) == {rules[r].rhs : r \in 1..Len(rules)}

OneRulePerDistinctForm ==
  /\ verbCall.state = "returned"
  /\ Len(verbRules) = Cardinality(RhsOf(verbRules))
  /\ RhsOf(verbRules) =
       UNION {Forms(AllVerbTermSets[i]) : i \in 1..Len(AllVerbTermSets)}

PastIsPresentForm(verbTermSet) ==
  /\ verbTermSet.past # ""
  /\ verbTermSet.past \in
       {verbTermSet.oneSg, verbTermSet.threeSg, verbTermSet.pl}

\* C23 (as stated): for verb sets that have their required forms, the call
\* succeeds and the symbol has exactly one rule per distinct surface form,
\* whichever forms of a set are the same string.
C23_OneRulePerDistinctForm ==
  (VerbCallOver /\ SeparateWellFormedSets) => OneRulePerDistinctForm

\* C23 (amended): the call succeeds with one rule per distinct surface form
\* unless the past form of a set is also its oneSg, threeSg or pl form; then
\* the call throws 'Ill-formed verb'.
C23_OneRulePerFormUnlessPastIsPresent ==
  (VerbCallOver /\ SeparateWellFormedSets) =>
    IF \E i \in 1..Len(AllVerbTermSets) : PastIsPresentForm(AllVerbTermSets[i])
    THEN verbCall.state = "threw" /\ verbCall.thrown = "Ill-formed verb"
    ELSE OneRulePerDistinctForm

\* A call that returned for two sets, in one of which the past participle is
\* the oneSg form and in the other the past form.
C23_Witness ==
  /\ verbCall.state = "returned"
  /\ Len(verbOptions.acceptedVerbTermSets) = 1
  /\ verbOptions.acceptedVerbTermSets[1].oneSg = "come"
  /\ verbOptions.acceptedVerbTermSets[1].pastParticiple = "come"
  /\ Len(verbOptions.substitutedVerbTermSets) = 1
  /\ verbOptions.substitutedVerbTermSets[1].pl = "like"
  /\ verbOptions.substitutedVerbTermSets[1].past = "liked"
  /\ verbOptions.substitutedVerbTermSets[1].pastParticiple = "liked"
  /\ Len(verbRules) = 8

\* C24: after a successful newVerbSet every rule comes from one of the sets;
\* a rule whose RHS is a form of accepted set i has the text forms of set i,
\* and a rule whose RHS is a form of a substituted set has the text forms of
\* the first accepted set.
C24_TextIsInflectionMap ==
  verbCall.state = "returned" =>
    \A r \in 1..Len(verbRules) :
      /\ \E i \in 1..Len(AllVerbTermSets) :
           verbRules[r].rhs \in Forms(AllVerbTermSets[i])
      /\ \A i \in 1..Len(verbOptions.acceptedVerbTermSets) :
           verbRules[r].rhs \in Forms(verbOptions.acceptedVerbTermSets[i])
             => verbRules[r].text =
                  TextForms(verbOptions.acceptedVerbTermSets[i])
      /\ \A j \in 1..Len(verbOptions.substitutedVerbTermSets) :
           verbRules[r].rhs \in Forms(verbOptions.substitutedVerbTermSets[j])
             => verbRules[r].text =
                  TextForms(verbOptions.acceptedVerbTermSets[1])

\* A successful call with two accepted sets and a substituted set: the last
\* rule matches a form of the substituted set and has the text forms of the
\* first accepted set, which are not those of the second.
C24_Witness ==
  /\ verbCall.state = "returned"
  /\ Len(verbOptions.acceptedVerbTermSets) = 2
  /\ Len(verbOptions.substitutedVerbTermSets) = 1
  /\ TextForms(verbOptions.acceptedVerbTermSets[1])
       # TextForms(verbOptions.acceptedVerbTermSets[2])
  /\ verbRules[Len(verbRules)].rhs
       \in Forms(verbOptions.substitutedVerbTermSets[1])
  /\ verbRules[Len(verbRules)].rhs \notin {"", verbRules[Len(verbRules)].text.oneSg,
        verbRules[Len(verbRules)].text.threeSg,
        verbRules[Len(verbRules)].text.pl,
        verbRules[Len(verbRules)].text.past}
  /\ verbRules[Len(verbRules)].text
       = TextForms(verbOptions.acceptedVerbTermSets[1])

PastForms(verbTermSet) ==
  {verbTermSet.past, verbTermSet.pastParticiple} \ {""}

PresentForms(verbTermSet) ==
  {verbTermSet.oneSg, verbTermSet.threeSg, verbTermSet.pl,
   verbTermSet.presentSubjunctive, verbTermSet.presentParticiple} \ {""}

\* C25 (as stated): after a successful newVerbSet a rule whose RHS is the past
\* or pastParticiple form of a set has tense "past", and a rule whose RHS is
\* one of the other forms of a set has no tense.
C25_PastFamilyCarriesTense ==
  verbCall.state = "returned" =>
    \A r \in 1..Len(verbRules) : \A i \in 1..Len(AllVerbTermSets) :
      /\ verbRules[r].rhs \in PastForms(AllVerbTermSets[i])
           => verbRules[r].tense = <<"past">>
      /\ verbRules[r].rhs \in PresentForms(AllVerbTermSets[i])
           => verbRules[r].tense = <<>>

\* C25 (amended): after a successful newVerbSet a rule has tense "past" when
\* its RHS is the past form of its set, or is the pastParticiple form and
\* none of the oneSg, threeSg, pl, presentSubjunctive and presentParticiple
\* forms; every other rule has no tense.
C25_TenseOfFirstForm ==
  verbCall.state = "returned" =>
    \A r \in 1..Len(verbRules) : \A i \in 1..Len(AllVerbTermSets) :
      verbRules[r].rhs \in Forms(AllVerbTermSets[i]) =>
        verbRules[r].tense =
          IF \/ verbRules[r].rhs = AllVerbTermSets[i].past
             \/ /\ verbRules[r].rhs = AllVerbTermSets[i].pastParticiple
                /\ verbRules[r].rhs \notin PresentForms(AllVerbTermSets[i])
          THEN <<"past">> ELSE <<>>

\* A successful call after which one rule matches the pastParticiple of a set
\* and has no tense, one matches the presentSubjunctive of a set and has
\* tense "past", and one matches only a pastParticiple and has tense "past".
C25_Witness ==
  /\ verbCall.state = "returned"
  /\ \E r \in 1..Len(verbRules) : \E i \in 1..Len(AllVerbTermSets) :
       /\ verbRules[r].rhs = AllVerbTermSets[i].pastParticiple
       /\ verbRules[r].tense = <<>>
  /\ \E r \in 1..Len(verbRules) : \E i \in 1..Len(AllVerbTermSets) :
       /\ verbRules[r].rhs = AllVerbTermSets[i].pastParticiple
       /\ verbRules[r].rhs # AllVerbTermSets[i].past
       /\ verbRules[r].tense = <<"past">>
  /\ \E r \in 1..Len(verbRules) : \E i \in 1..Len(AllVerbTermSets) :
       /\ verbRules[r].rhs = AllVerbTermSets[i].presentSubjunctive
       /\ verbRules[r].tense = <<"past">>

\* C26: after a newVerbSet call with an insertionCost that succeeds, the
\* first rule of the symbol, the oneSg rule of the first accepted set, has
\* that insertionCost and no other rule has one; after a call without the
\* option, and on the rules left by a call that threw, no rule other than
\* that first one has an insertionCost.
C26_InsertionCostOnFirstRuleOnly ==
  VerbCallOver =>
    /\ \A r \in 1..Len(verbRules) :
         verbRules[r].insertionCost # <<>> =>
           /\ r = 1
           /\ verbOptions.hasInsertionCost
           /\ verbRules[r].insertionCost = <<verbOptions.insertionCost>>
    /\ (verbCall.state = "returned" /\ verbOptions.hasInsertionCost) =>
         /\ verbRules[1].rhs = verbOptions.acceptedVerbTermSets[1].oneSg
         /\ verbRules[1].insertionCost = <<verbOptions.insertionCost>>

\* A successful call with insertionCost 0, two accepted sets and a
\* substituted set.
C26_Witness ==
  /\ verbCall.state = "returned"
  /\ verbOptions.hasInsertionCost
  /\ verbOptions.insertionCost = 0
  /\ Len(verbOptions.acceptedVerbTermSets) = 2
  /\ Len(verbOptions.substitutedVerbTermSets) = 1
  /\ verbRules[1].insertionCost = <<0>>
  /\ Len(verbRules) > 6

\* C29: on the symbol of a successful newVerbSet, isVerb answers true exactly
\* when the first accepted set has a non-empty past form and isPresentVerb
\* answers true exactly when it has not, so exactly one of them answers true,
\* whatever the later accepted sets and the substituted sets are.
C29_ExactlyOneOfIsVerbIsPresentVerb ==
  /\ verbCall.isVerb # <<>> =>
       verbCall.isVerb[1] = (verbOptions.acceptedVerbTermSets[1].past # "")
  /\ verbCall.isPresentVerb # <<>> =>
       verbCall.isPresentVerb[1]
         = (verbOptions.acceptedVerbTermSets[1].past = "")
  /\ (verbCall.isVerb # <<>> /\ verbCall.isPresentVerb # <<>>) =>
       verbCall.isVerb[1] # verbCall.isPresentVerb[1]

\* Both questions were answered for a symbol whose first accepted set has a
\* past form while its second accepted set and its substituted set have none.
C29_Witness ==
  /\ verbCall.state = "returned"
  /\ verbCall.isVerb = <<TRUE>>
  /\ verbCall.isPresentVerb = <<FALSE>>
  /\ Len(verbOptions.acceptedVerbTermSets) = 2
  /\ verbOptions.acceptedVerbTermSets[2].past = ""
  /\ Len(verbOptions.substitutedVerbTermSets) = 1
  /\ verbOptions.substitutedVerbTermSets[1].past = ""

\* --------------------------------------------------------- the cost pass
\* A forest is a record: nodes maps a node to the sequence of its subs (<<>>
\* for a terminal node, whose `subs` is undefined), subs maps a sub to its
\* node, the node of its `next` ("" when it has none), its ruleProps and its
\* minCost (<<>> while undefined), given holds subs as they were at the call,
\* and threw says that a TypeError ended the pass.
\*
\* The text of a rule: none (undefined), an array of words, or an object with
\* one entry per grammatical case.
NoText == [kind |-> "none", words |-> <<>>, cases |-> {}]

Words(w) == [kind |-> "words", words |-> w, cases |-> {}]

\* ruleProps with the given cost and no other property.  isArray stands for
\* an array of ruleProps, whose first cost is the one read; insertionIdx is
\* -1 when undefined.
Props(cost) ==
  [isArray |-> FALSE, cost |-> cost, semantic |-> "",
   insertedSemantic |-> FALSE, personNumber |-> "", verbForm |-> "",
   insertionIdx |-> -1, gramCase |-> "", text |-> NoText]

\* sub.minCost + (subRuleProps.constructor === Array ? subRuleProps[0].cost
\*                                                   : subRuleProps.cost)
SubCost(f, s) == f.subs[s].minCost[1] + f.subs[s].ruleProps.cost

\* if (minCost === undefined || cost < minCost) minCost = cost
LowerOf(minCost, cost) ==
  IF minCost = <<>> \/ cost < minCost[1] THEN <<cost>> ELSE minCost

\* None of the returns of lines 54-66 is taken.
Collapsible(parentSub, sub) ==
  LET parentRuleProps == parentSub.ruleProps
      ruleProps == sub.ruleProps
  IN /\ ~(parentSub.next # "" \/ sub.next # "")
     /\ ~(parentRuleProps.isArray \/ ruleProps.isArray)
     /\ ~(parentRuleProps.insertedSemantic \/ ruleProps.insertedSemantic)
     /\ ~(parentRuleProps.semantic # "" /\ ruleProps.semantic # "")
     /\ parentRuleProps.personNumber = ""
     /\ ~(parentRuleProps.verbForm # "" \/ ruleProps.verbForm # "")
     /\ ~(ruleProps.insertionIdx = 0 /\ parentRuleProps.insertionIdx = 0)
     /\ ~(parentRuleProps.insertionIdx = 1 \/ ruleProps.insertionIdx = 1)

\* Lines 80-102 read a property of an undefined text.
TextThrows(parentRuleProps, ruleProps) ==
  IF parentRuleProps.insertionIdx = 0
  THEN ruleProps.text.kind # "none" /\ parentRuleProps.text.kind = "none"
  ELSE IF ruleProps.insertionIdx = 0
  THEN parentRuleProps.text.kind # "none" /\ ruleProps.text.kind = "none"
  ELSE parentRuleProps.gramCase # "" /\ ruleProps.text.kind = "none"

\* a.concat(b) on texts
ConcatText(a, b) ==
  Words(a.words \o (IF b.kind = "cases" THEN <<"{}">> ELSE b.words))

\* subText[parentGramCase] is there
HasCase(subText, gramCase) ==
  gramCase # "" /\ subText.kind = "cases" /\ gramCase \in subText.cases

\* newRuleProps.text of lines 80-102, when nothing throws
NewText(parentRuleProps, ruleProps) ==
  IF parentRuleProps.insertionIdx = 0
  THEN IF ruleProps.text.kind # "none"
       THEN ConcatText(parentRuleProps.text, ruleProps.text)
       ELSE parentRuleProps.text
  ELSE IF ruleProps.insertionIdx = 0
  THEN IF parentRuleProps.text.kind # "none"
       THEN ConcatText(ruleProps.text, parentRuleProps.text)
       ELSE ruleProps.text
  ELSE IF HasCase(ruleProps.text, parentRuleProps.gramCase)
  THEN Words(<<parentRuleProps.gramCase>>)
  ELSE IF parentRuleProps.text.kind # "none" THEN parentRuleProps.text
  ELSE ruleProps.text

ParentCostKept(parentRuleProps, ruleProps) == parentRuleProps.cost

\* cost: parentRuleProps.cost + ruleProps.cost
NewCost(parentRuleProps, ruleProps) == parentRuleProps.cost + ruleProps.cost

\* newRuleProps of lines 69-102; the text and the gramCase are not set when
\* the text throws.
NewRuleProps(parentRuleProps, ruleProps) ==
  [isArray |-> FALSE,
   cost |-> NewCost(parentRuleProps, ruleProps),
   semantic |-> IF parentRuleProps.semantic # ""
                THEN parentRuleProps.semantic ELSE ruleProps.semantic,
   insertedSemantic |-> FALSE,
   personNumber |-> ruleProps.personNumber,
   verbForm |-> "",
   insertionIdx |-> -1,
   gramCase |-> IF \/ TextThrows(parentRuleProps, ruleProps)
                   \/ parentRuleProps.insertionIdx = 0
                   \/ ruleProps.insertionIdx = 0
                   \/ HasCase(ruleProps.text, parentRuleProps.gramCase)
                THEN "" ELSE ruleProps.gramCase,
   text |-> IF TextThrows(parentRuleProps, ruleProps) THEN NoText
            ELSE NewText(parentRuleProps, ruleProps)]

\* Lines 53-103: the parent sub takes the node of its only sub.
Collapse(f, parentSub, subs) ==
  IF Len(subs) # 1 \/ ~Collapsible(f.subs[parentSub], f.subs[subs[1]]) THEN f
  ELSE [f EXCEPT
          !.subs[parentSub].node = f.subs[subs[1]].node,
          !.subs[parentSub].ruleProps =
             NewRuleProps(f.subs[parentSub].ruleProps,
                          f.subs[subs[1]].ruleProps),
          !.subs[parentSub].minCost =
             <<@[1] - f.subs[subs[1]].ruleProps.cost>>,
          !.threw = TextThrows(f.subs[parentSub].ruleProps,
                               f.subs[subs[1]].ruleProps)]

\* parentSub.minCost += minCost, and the collapse
Reduce(r, parentSub, subs) ==
  IF r.f.threw THEN r.f
  ELSE Collapse([r.f EXCEPT !.subs[parentSub].minCost =
                              <<@[1] + r.minCost[1]>>],
                parentSub, subs)

RECURSIVE clean(_, _, _)
RECURSIVE cleanSubs(_, _, _, _)

\* Lines 22-36: a sub not inspected before gets minCost 0 and is cleaned with
\* the subs of its node and then with the subs of the node of its next.
Inspect(f, s) ==
  IF f.threw \/ f.subs[s].minCost # <<>> THEN f
  ELSE IF f.nodes[f.subs[s].node] = <<>>
  THEN [f EXCEPT !.subs[s].minCost = <<0>>]
  ELSE IF f.subs[s].next = ""
  THEN clean([f EXCEPT !.subs[s].minCost = <<0>>], s,
             f.nodes[f.subs[s].node])
  ELSE clean(clean([f EXCEPT !.subs[s].minCost = <<0>>], s,
                   f.nodes[f.subs[s].node]),
             s, f.nodes[f.subs[s].next])

\* Lines 38-44, after sub number i was inspected
NextSub(g, subs, i, minCost) ==
  IF g.threw THEN [f |-> g, minCost |-> minCost]
  ELSE cleanSubs(g, subs, i + 1, LowerOf(minCost, SubCost(g, subs[i])))

\* The loop of lines 18-45 from sub number i on.
cleanSubs(f, subs, i, minCost) ==
  IF i > Len(subs) THEN [f |-> f, minCost |-> minCost]
  ELSE NextSub(Inspect(f, subs[i]), subs, i, minCost)

\* clean(parentSub, subs)
clean(f, parentSub, subs) ==
  Reduce(cleanSubs(f, subs, 1, <<>>), parentSub, subs)

RECURSIVE cleanStartSubs(_, _, _)
\* module.exports(startNode), from sub number s of startNode on
cleanStartSubs(f, subs, s) ==
  IF f.threw \/ s > Len(subs) THEN f
  ELSE cleanStartSubs(
         clean([f EXCEPT !.subs[subs[s]].minCost = <<0>>], subs[s],
               f.nodes[f.subs[subs[s]].node]),
         subs, s + 1)

MaxCost == 2

\* The ruleProps of the nonterminal rules in the forests.
NontermProps ==
  {Props(k) : k \in 0..MaxCost}
  \cup {[Props(1) EXCEPT !.semantic = "f"],
        [Props(1) EXCEPT !.insertedSemantic = TRUE],
        [Props(1) EXCEPT !.isArray = TRUE],
        [Props(1) EXCEPT !.personNumber = "oneSg"],
        [Props(1) EXCEPT !.verbForm = "past"],
        [Props(2) EXCEPT !.insertionIdx = 0, !.text = Words(<<"the">>)],
        [Props(2) EXCEPT !.insertionIdx = 1, !.text = Words(<<"the">>)],
        [Props(1) EXCEPT !.gramCase = "nom"],
        [Props(1) EXCEPT !.text = Words(<<"of">>)]}

\* The ruleProps of the terminal rules in the forests.
TermProps ==
  {[Props(k) EXCEPT !.text = Words(<<"x">>)] : k \in 0..MaxCost}
  \cup {[Props(1) EXCEPT !.text = [kind |-> "cases", words |-> <<>>,
                                   cases |-> {"nom", "obj"}]],
        [Props(1) EXCEPT !.text = Words(<<"x">>), !.semantic = "g"],
        Props(1)}

\* The nodes of the forests: the start node N0 has the subs T and D; T leads
\* to the node of A, A to the node of B, B to the node of the terminal sub C;
\* the node of D has B and the terminal sub E as alternatives; N5 is the node
\* of a `next`.
ForestNodes ==
  [n \in {"N0", "N1", "N2", "N3", "N4", "N5", "N6"} |->
     CASE n = "N0" -> <<"T", "D">>
       [] n = "N6" -> <<"A">>
       [] n = "N1" -> <<"B">>
       [] n = "N2" -> <<"C">>
       [] n = "N3" -> <<>>
       [] n = "N4" -> <<"B", "E">>
       [] n = "N5" -> <<"E">>]

\* The subs of a forest, none inspected yet.
ForestSubs(a, aNext, b, bNext, c, e) ==
  [s \in {"T", "A", "B", "C", "D", "E"} |->
     [node |-> CASE s = "T" -> "N6" [] s = "A" -> "N1" [] s = "B" -> "N2"
                 [] s = "C" -> "N3" [] s = "D" -> "N4" [] s = "E" -> "N3",
      next |-> CASE s = "A" -> aNext [] s = "B" -> bNext [] OTHER -> "",
      ruleProps |-> CASE s = "A" -> a [] s = "B" -> b [] s = "C" -> c
                      [] s = "E" -> e [] OTHER -> Props(1),
      minCost |-> <<>>]]

\* The forests the pass is run on.
Forests ==
  {[nodes |-> ForestNodes, given |-> subs, subs |-> subs, threw |-> FALSE,
    state |-> "given"] :
   subs \in {ForestSubs(a, aNext, b, bNext, c, e) :
     a \in NontermProps, aNext \in {"", "N5"},
     b \in NontermProps, bNext \in {"", "N5"},
     c \in TermProps, e \in {[Props(k) EXCEPT !.text = Words(<<"y">>)] :
                               k \in 0..MaxCost}}}

InitClean ==
  /\ grammarKeys = <<>>
  /\ symRules = [n \in {} |-> <<>>]
  /\ lastCall = NoCall
  /\ detOpts = NoOpts
  /\ status = "authoring"
  /\ symIdx = 0
  /\ warnings = <<>>
  /\ errors = <<>>
  /\ tab = <<>>
  /\ rootIdx = 0
  /\ stack = <<>>
  /\ verbOptions = NoVerbOptions
  /\ verbRules = <<>>
  /\ verbCall = NoVerbCall
  /\ forest \in Forests

\* The forest when the pass is over.
Cleaned(f) == [f EXCEPT !.state = IF f.threw THEN "threw" ELSE "done"]

\* module.exports(startNode) on the start node N0
CleanForest ==
  /\ forest.state = "given"
  /\ forest' = Cleaned(cleanStartSubs(forest, forest.nodes["N0"], 1))
  /\ UNCHANGED <<verbOptions, verbRules, verbCall>>
  /\ UNCHANGED authorVars
  /\ UNCHANGED detectorVars

SpecClean == InitClean /\ [][CleanForest]_vars

\* ----------------------------------------- properties of the cost pass
RECURSIVE MinBelow(_, _)
RECURSIVE MinOver(_, _)

\* The least cost of a sub of the given sequence with what is below it, in
\* the forest as it was given.
MinOver(f, subs) ==
  LET costs == {f.given[subs[i]].ruleProps.cost + MinBelow(f, subs[i]) :
                  i \in 1..Len(subs)}
  IN CHOOSE m \in costs : \A c \in costs : m <= c

\* The least cost of the trees below a sub in the forest as it was given:
\* what minCost is when no sub is collapsed.
MinBelow(f, s) ==
  IF f.nodes[f.given[s].node] = <<>> THEN 0
  ELSE MinOver(f, f.nodes[f.given[s].node])
       + (IF f.given[s].next = "" THEN 0
          ELSE MinOver(f, f.nodes[f.given[s].next]))

PassOver == forest.state \in {"done", "threw"}

IsCollapsed(s) == forest.subs[s].node # forest.given[s].node

\* The only sub of the node a sub was given with.
OnlySub(s) == forest.nodes[forest.given[s].node][1]

\* C30: when the pass is over, a sub that was collapsed with its only child
\* sub has as cost the sum of its cost and the cost of that child, and
\* neither of the two has a next; a sub that has a next, or whose only child
\* has one, keeps its node and its ruleProps; and when the pass finished,
\* cost plus minCost of every sub is what it is when no sub is collapsed.
C30_CollapsePreservesCost ==
  PassOver =>
    \A s \in DOMAIN forest.subs :
      /\ IsCollapsed(s) =>
           /\ Len(forest.nodes[forest.given[s].node]) = 1
           /\ forest.subs[s].node = forest.subs[OnlySub(s)].node
           /\ forest.subs[s].ruleProps.cost
                = forest.given[s].ruleProps.cost
                  + forest.subs[OnlySub(s)].ruleProps.cost
           /\ forest.given[s].next = ""
           /\ forest.given[OnlySub(s)].next = ""
      /\ (\/ forest.given[s].next # ""
          \/ /\ Len(forest.nodes[forest.given[s].node]) = 1
             /\ forest.given[OnlySub(s)].next # "") =>
           /\ forest.subs[s].node = forest.given[s].node
           /\ forest.subs[s].ruleProps = forest.given[s].ruleProps
      /\ forest.state = "done" =>
           /\ forest.subs[s].minCost # <<>>
           /\ forest.subs[s].ruleProps.cost + forest.subs[s].minCost[1]
                = forest.given[s].ruleProps.cost + MinBelow(forest, s)

\* The pass finished on a forest in which B was collapsed with the terminal
\* sub C, then A with B and then the start sub T with A, all with a cost,
\* while D, with two subs, was not.
C30_Witness ==
  /\ forest.state = "done"
  /\ forest.subs["T"].node = "N3"
  /\ forest.subs["T"].ruleProps.cost
       = 1 + forest.subs["A"].ruleProps.cost
  /\ forest.subs["B"].node = "N3"
  /\ forest.subs["A"].node = "N3"
  /\ forest.given["A"].ruleProps.cost > 0
  /\ forest.given["B"].ruleProps.cost > 0
  /\ forest.given["C"].ruleProps.cost > 0
  /\ forest.subs["A"].ruleProps.cost
       = forest.given["A"].ruleProps.cost + forest.given["B"].ruleProps.cost
         + forest.given["C"].ruleProps.cost
  /\ forest.subs["A"].minCost = <<0>>
  /\ forest.subs["D"].node = "N4"

====
